---------------------------- MODULE Spec2Model ----------------------------
(***************************************************************************)
(* A model of tojvm: the class-file loader (Load and its sticky-error      *)
(* reader), the class registry (VM.Class), method entry (VM.callMethod)    *)
(* and the bytecode interpreter (VM.exec).                                 *)
(*                                                                         *)
(* Go's call stack is the variable `stack`: one activation record per      *)
(* running Call, Class or exec.  A Go panic (index out of range, failed    *)
(* type assertion) ends the process: `crashed` becomes TRUE and nothing    *)
(* runs after it.                                                          *)
(***************************************************************************)
EXTENDS Integers, Sequences, FiniteSets, TLC

(***************************************************************************)
(* Bytes, fixed-width integers and strings                                 *)
(***************************************************************************)

\* The printable ASCII characters, in code order from 32 to 126 (a "?" stands
\* at 96, the backquote, which a TLA+ string cannot hold).
Chars == " !\"#$%&'()*+,-./0123456789:;<=>?@ABCDEFGHIJKLMNOPQRSTUVWXYZ[\\]^_?abcdefghijklmnopqrstuvwxyz{|}~"

\* Go's string(b) for one byte.  Bytes outside printable ASCII (the zero
\* bytes of a failed read among them) are all shown as "?".
Chr(b) == IF b >= 32 /\ b <= 126 /\ b # 96 THEN SubSeq(Chars, b - 31, b - 31) ELSE "?"

\* The byte of a printable character.
Ord(c) == CHOOSE b \in (32..126) \ {96} : Chr(b) = c

RECURSIVE StrOf(_)
\* Go's string(bytes).
StrOf(bs) == IF bs = <<>> THEN "" ELSE Chr(Head(bs)) \o StrOf(Tail(bs))

RECURSIVE BytesOf(_)
\* The bytes of a string of printable characters.
BytesOf(s) == IF Len(s) = 0 THEN <<>> ELSE <<Ord(Head(s))>> \o BytesOf(Tail(s))

Zeros(n) == [i \in 1..n |-> 0]

\* binary.BigEndian.Uint16
Uint16(b) == b[1] * 256 + b[2]

\* int32(binary.BigEndian.Uint32(b)): the two's-complement reading.
Int32OfBytes(b) ==
    (IF b[1] >= 128 THEN b[1] - 256 ELSE b[1]) * 16777216
        + b[2] * 65536 + b[3] * 256 + b[4]

(***************************************************************************)
(* The class-file loader                                                   *)
(***************************************************************************)

TagClass == 7
TagFieldRef == 9
TagMethodRef == 10
TagInterfaceMethodRef == 11
TagString == 8
TagInteger == 3
TagFloat == 4
TagLong == 5
TagDouble == 6
TagNameAndType == 12
TagUTF8 == 1

\* The zero value of the Const struct.  Integer is the int32; Float is the
\* bit pattern read as an int32; Long and Double are the eight bytes read,
\* most significant first (no code of the program reads these four).
ZeroConst ==
    [Tag |-> 0, NameIndex |-> 0, ClassIndex |-> 0, NameAndTypeIndex |-> 0,
     StringIndex |-> 0, DescIndex |-> 0, Integer |-> 0, Long |-> Zeros(8),
     Float |-> 0, Double |-> Zeros(8), String |-> ""]

RECURSIVE ResolveFrom(_, _, _)
\* ConstPool.Resolve, with `fuel` calls left: [panic, s].  cp[index-1] is
\* computed in uint16, so index 0 reads cp[65535]; an index outside the pool
\* panics, and a chain of indices that never ends overflows Go's stack.
ResolveFrom(cp, index, fuel) ==
    LET k == (index + 65535) % 65536
    IN  IF k >= Len(cp) \/ fuel = 0
        THEN [panic |-> TRUE, s |-> ""]
        ELSE LET c == cp[k + 1]
             IN  IF c.Tag = TagUTF8
                 THEN [panic |-> FALSE, s |-> c.String]
                 ELSE IF c.Tag = TagString
                 THEN ResolveFrom(cp, c.StringIndex, fuel - 1)
                 ELSE IF c.Tag = TagClass \/ c.Tag = TagNameAndType
                 THEN ResolveFrom(cp, c.NameIndex, fuel - 1)
                 ELSE [panic |-> FALSE, s |-> ""]

\* ConstPool.Resolve: [panic, s].
Resolve(cp, index) == ResolveFrom(cp, index, Len(cp) + 1)

\* loader.bytes: [b, l].  io.ReadFull fills b with what is left when fewer
\* than n bytes remain and reports EOF (nothing read) or unexpected EOF; a
\* read of no bytes never fails.  With the error latched nothing is read.
bytes(l, n) ==
    IF l.err # ""
    THEN [b |-> Zeros(n), l |-> l]
    ELSE IF Len(l.r) >= n
    THEN [b |-> SubSeq(l.r, 1, n),
          l |-> [r |-> SubSeq(l.r, n + 1, Len(l.r)), err |-> ""]]
    ELSE [b |-> l.r \o Zeros(n - Len(l.r)),
          l |-> [r |-> <<>>,
                 err |-> IF Len(l.r) = 0 THEN "EOF" ELSE "unexpected EOF"]]

\* loader.u1, u2, u4: [v, l].  (u4 is binary.BigEndian.Uint32; the inputs of
\* the model keep its first byte below 128.)
u1(l) == LET x == bytes(l, 1) IN [v |-> x.b[1], l |-> x.l]
u2(l) == LET x == bytes(l, 2) IN [v |-> Uint16(x.b), l |-> x.l]
u4(l) ==
    LET x == bytes(l, 4)
    IN  [v |-> x.b[1] * 16777216 + x.b[2] * 65536 + x.b[3] * 256 + x.b[4],
         l |-> x.l]

\* The switch of loader.cpinfo on the tag just read: [c, l].  Of what the
\* cases read first, a is the u2 (Class, the three Refs, String, NameAndType
\* and UTF8), w the four bytes (Integer, Float) and d the eight bytes (Long,
\* Double); b is the second u2 and s the bytes of the string.
cpCase(l, tag, a, b, s, w, d) ==
    IF tag = TagClass
    THEN [c |-> [ZeroConst EXCEPT !.Tag = tag, !.NameIndex = a.v], l |-> a.l]
    ELSE IF tag \in {TagFieldRef, TagMethodRef, TagInterfaceMethodRef}
    THEN [c |-> [ZeroConst EXCEPT !.Tag = tag, !.ClassIndex = a.v,
                                  !.NameAndTypeIndex = b.v],
          l |-> b.l]
    ELSE IF tag = TagString
    THEN [c |-> [ZeroConst EXCEPT !.Tag = tag, !.StringIndex = a.v], l |-> a.l]
    ELSE IF tag = TagInteger
    THEN [c |-> [ZeroConst EXCEPT !.Tag = tag, !.Integer = Int32OfBytes(w.b)],
          l |-> w.l]
    ELSE IF tag = TagFloat
    THEN [c |-> [ZeroConst EXCEPT !.Tag = tag, !.Float = Int32OfBytes(w.b)],
          l |-> w.l]
    ELSE IF tag = TagLong
    THEN [c |-> [ZeroConst EXCEPT !.Tag = tag, !.Long = d.b], l |-> d.l]
    ELSE IF tag = TagDouble
    THEN [c |-> [ZeroConst EXCEPT !.Tag = tag, !.Double = d.b], l |-> d.l]
    ELSE IF tag = TagNameAndType
    THEN [c |-> [ZeroConst EXCEPT !.Tag = tag, !.NameIndex = a.v,
                                  !.DescIndex = b.v],
          l |-> b.l]
    ELSE IF tag = TagUTF8
    THEN [c |-> [ZeroConst EXCEPT !.Tag = tag, !.String = StrOf(s.b)],
          l |-> s.l]
    ELSE [c |-> [ZeroConst EXCEPT !.Tag = tag],
          l |-> [l EXCEPT !.err = "unsupported tag"]]

\* The reads that follow the first u2 of an entry.
cpOperands(l, tag, a) ==
    cpCase(l, tag, a, u2(a.l), bytes(a.l, a.v), bytes(l, 4), bytes(l, 8))

\* One iteration's switch of loader.cpinfo: [c, l].
cpEntry(l, tag) == cpOperands(l, tag, u2(l))

RECURSIVE cpLoop(_, _, _, _)
\* The end of one iteration of loader.cpinfo: the entry e is appended, and
\* after a Long or a Double the counter skips one and a placeholder follows.
cpAppend(tag, e, i, constPoolCount, constPool) ==
    IF tag = TagDouble \/ tag = TagLong
    THEN cpLoop(e.l, (i + 2) % 65536, constPoolCount,
                constPool \o <<e.c, [ZeroConst EXCEPT !.Tag = TagInteger]>>)
    ELSE cpLoop(e.l, (i + 1) % 65536, constPoolCount, Append(constPool, e.c))

\* One iteration of loader.cpinfo after its tag t has been read.
cpTagged(t, i, constPoolCount, constPool) ==
    cpAppend(t.v, cpEntry(t.l, t.v), i, constPoolCount, constPool)

\* The loop of loader.cpinfo from counter i: [cp, l].
cpLoop(l, i, constPoolCount, constPool) ==
    IF ~(i < constPoolCount)
    THEN [cp |-> constPool, l |-> l]
    ELSE cpTagged(u1(l), i, constPoolCount, constPool)

\* loader.cpinfo with its count n read: [cp, l].
cpCounted(n) == cpLoop(n.l, 1, n.v, <<>>)

\* loader.cpinfo: [cp, l].
cpinfo(l) == cpCounted(u2(l))

RECURSIVE interfacesLoop(_, _, _, _)
\* One iteration of loader.interfaces after its index i has been read and
\* resolved as s.
interfacesNamed(i, s, cp, n, acc) ==
    IF s.panic
    THEN [panic |-> TRUE, l |-> i.l, v |-> acc]
    ELSE interfacesLoop(i.l, cp, n - 1, Append(acc, s.s))

\* One iteration of loader.interfaces after its index i has been read.
interfacesRead(i, cp, n, acc) == interfacesNamed(i, Resolve(cp, i.v), cp, n, acc)

\* The loop of loader.interfaces with n iterations left: [panic, l, v].
interfacesLoop(l, cp, n, acc) ==
    IF n = 0
    THEN [panic |-> FALSE, l |-> l, v |-> acc]
    ELSE interfacesRead(u2(l), cp, n, acc)

\* loader.interfaces with its count n read.
interfacesCounted(n, cp) == interfacesLoop(n.l, cp, n.v, <<>>)

\* loader.interfaces: [panic, l, v].
interfaces(l, cp) == interfacesCounted(u2(l), cp)

RECURSIVE attrsLoop(_, _, _, _)
\* One iteration of loader.attrs after the name and the payload d.
attrsData(name, d, cp, n, acc) ==
    attrsLoop(d.l, cp, n - 1, Append(acc, [Name |-> name, Data |-> d.b]))

\* One iteration of loader.attrs after the name and the length len.
attrsLength(name, len, cp, n, acc) ==
    attrsData(name, bytes(len.l, len.v), cp, n, acc)

\* One iteration of loader.attrs after its name index i has been read and
\* resolved as s.
attrsNamed(i, s, cp, n, acc) ==
    IF s.panic
    THEN [panic |-> TRUE, l |-> i.l, v |-> acc]
    ELSE attrsLength(s.s, u4(i.l), cp, n, acc)

\* One iteration of loader.attrs after its name index i has been read.
attrsRead(i, cp, n, acc) == attrsNamed(i, Resolve(cp, i.v), cp, n, acc)

\* The loop of loader.attrs with n iterations left: [panic, l, v].
attrsLoop(l, cp, n, acc) ==
    IF n = 0
    THEN [panic |-> FALSE, l |-> l, v |-> acc]
    ELSE attrsRead(u2(l), cp, n, acc)

\* loader.attrs with its count n read.
attrsCounted(n, cp) == attrsLoop(n.l, cp, n.v, <<>>)

\* loader.attrs: [panic, l, v].
attrs(l, cp) == attrsCounted(u2(l), cp)

RECURSIVE fieldsLoop(_, _, _, _)
\* One iteration of loader.fields after its attributes a.
fieldsAttrs(flags, name, desc, a, cp, n, acc) ==
    IF a.panic
    THEN [panic |-> TRUE, l |-> a.l, v |-> acc]
    ELSE fieldsLoop(a.l, cp, n - 1,
                    Append(acc, [Flags |-> flags, Name |-> name,
                                 Descriptor |-> desc, Attributes |-> a.v]))

\* One iteration of loader.fields after its descriptor index di has been
\* read and resolved as ds.
fieldsDesc(flags, name, di, ds, cp, n, acc) ==
    IF ds.panic
    THEN [panic |-> TRUE, l |-> di.l, v |-> acc]
    ELSE fieldsAttrs(flags, name, ds.s, attrs(di.l, cp), cp, n, acc)

\* One iteration of loader.fields after its name.
fieldsDescRead(flags, name, di, cp, n, acc) ==
    fieldsDesc(flags, name, di, Resolve(cp, di.v), cp, n, acc)

\* One iteration of loader.fields after its name index ni has been read
\* and resolved as nm.
fieldsName(flags, ni, nm, cp, n, acc) ==
    IF nm.panic
    THEN [panic |-> TRUE, l |-> ni.l, v |-> acc]
    ELSE fieldsDescRead(flags, nm.s, u2(ni.l), cp, n, acc)

\* One iteration of loader.fields after its flags.
fieldsNameRead(flags, ni, cp, n, acc) ==
    fieldsName(flags, ni, Resolve(cp, ni.v), cp, n, acc)

\* One iteration of loader.fields after its flags fl have been read.
fieldsFlags(fl, cp, n, acc) == fieldsNameRead(fl.v, u2(fl.l), cp, n, acc)

\* The loop of loader.fields with n iterations left: [panic, l, v].
fieldsLoop(l, cp, n, acc) ==
    IF n = 0
    THEN [panic |-> FALSE, l |-> l, v |-> acc]
    ELSE fieldsFlags(u2(l), cp, n, acc)

\* loader.fields with its count n read.
fieldsCounted(n, cp) == fieldsLoop(n.l, cp, n.v, <<>>)

\* loader.fields: [panic, l, v].
fields(l, cp) == fieldsCounted(u2(l), cp)

\* The zero value of the Class struct.
ZeroClass ==
    [ConstPool |-> <<>>, Name |-> "", Super |-> "", Flags |-> 0,
     Interfaces |-> <<>>, Fields |-> <<>>, Methods |-> <<>>,
     Attributes |-> <<>>]

\* A Go panic inside Load.
LoadPanic == [panic |-> TRUE, c |-> ZeroClass, err |-> ""]

\* Load from its last statement on: the class attributes as are read and the
\* Class is returned with the loader's latched error.
LoadAttributes(c, as) ==
    IF as.panic THEN LoadPanic
    ELSE [panic |-> FALSE, c |-> [c EXCEPT !.Attributes = as.v], err |-> as.l.err]

\* Load from c.Attributes on, the methods ms read.
LoadMethods(c, cp, ms) ==
    IF ms.panic THEN LoadPanic
    ELSE LoadAttributes([c EXCEPT !.Methods = ms.v], attrs(ms.l, cp))

\* Load from c.Methods on, the fields fs read.
LoadFields(c, cp, fs) ==
    IF fs.panic THEN LoadPanic
    ELSE LoadMethods([c EXCEPT !.Fields = fs.v], cp, fields(fs.l, cp))

\* Load from c.Fields on, the interfaces ifs read.
LoadInterfaces(c, cp, ifs) ==
    IF ifs.panic THEN LoadPanic
    ELSE LoadFields([c EXCEPT !.Interfaces = ifs.v], cp, fields(ifs.l, cp))

\* Load from c.Interfaces on, the super index read and resolved.
LoadSuper(c, cp, superIdx, super) ==
    IF super.panic THEN LoadPanic
    ELSE LoadInterfaces([c EXCEPT !.Super = super.s], cp,
                        interfaces(superIdx.l, cp))

\* Load from the reading of the super index on.
LoadSuperRead(c, cp, superIdx) ==
    LoadSuper(c, cp, superIdx, Resolve(cp, superIdx.v))

\* Load from c.Super on, the index of the class read and resolved.
LoadName(c, cp, thisIdx, name) ==
    IF name.panic THEN LoadPanic
    ELSE LoadSuperRead([c EXCEPT !.Name = name.s], cp, u2(thisIdx.l))

\* Load from the resolving of c.Name on.
LoadNameRead(c, cp, thisIdx) ==
    LoadName(c, cp, thisIdx, Resolve(cp, thisIdx.v))

\* Load from c.Name on, the flags read.
LoadFlags(cp, flags) ==
    LoadNameRead([ZeroClass EXCEPT !.ConstPool = cp, !.Flags = flags.v], cp,
                 u2(flags.l))

\* Load from c.Flags on, the constant pool read.
LoadPool(pool) == LoadFlags(pool.cp, u2(pool.l))

\* Load(r): [panic, c, err].  panic = TRUE is a Go panic inside Load; err is
\* the loader's latched error, "" for nil.  The loader is [r, err]: the
\* bytes not yet read and the latched error.
Load(r) == LoadPool(cpinfo(bytes([r |-> r, err |-> ""], 8).l))

(***************************************************************************)
(* Class files: what the compiler writes for a class                       *)
(***************************************************************************)

U2(n) == <<n \div 256, n % 256>>
U4(n) == <<n \div 16777216, (n \div 65536) % 256, (n \div 256) % 256, n % 256>>

\* Constant-pool entries as the compiler lists them: the tag and what
\* follows it.
Utf8(s) == <<TagUTF8, s>>
ClassRef(nameIndex) == <<TagClass, nameIndex>>
StringRef(stringIndex) == <<TagString, stringIndex>>
NameAndType(nameIndex, descIndex) == <<TagNameAndType, nameIndex, descIndex>>
FieldRef(classIndex, ntIndex) == <<TagFieldRef, classIndex, ntIndex>>
MethodRef(classIndex, ntIndex) == <<TagMethodRef, classIndex, ntIndex>>

\* The bytes of one constant-pool entry.
ConstBytes(e) ==
    <<e[1]>> \o (IF e[1] = TagUTF8 THEN U2(Len(e[2])) \o BytesOf(e[2])
                 ELSE IF e[1] = TagInteger THEN e[2]
                 ELSE IF Len(e) = 2 THEN U2(e[2])
                 ELSE U2(e[2]) \o U2(e[3]))

RECURSIVE PoolBytes(_)
PoolBytes(cp) ==
    IF Len(cp) = 0 THEN <<>> ELSE ConstBytes(Head(cp)) \o PoolBytes(Tail(cp))

\* An attribute: the index of its name, and its payload.
AttributeInfo(nameIndex, data) == <<nameIndex, data>>

\* The payload of a Code attribute: max_stack, max_locals, code_length, the
\* code, an empty exception table and no attributes.
CodeData(maxStack, maxLocals, code) ==
    U2(maxStack) \o U2(maxLocals) \o U4(Len(code)) \o code \o U2(0) \o U2(0)

RECURSIVE AttrsBytes(_)
\* The attribute records: name index, u4 length, payload.
AttrsBytes(as) ==
    IF Len(as) = 0 THEN <<>>
    ELSE U2(Head(as)[1]) \o U4(Len(Head(as)[2])) \o Head(as)[2]
             \o AttrsBytes(Tail(as))

\* A field or method; as is the sequence of its attributes.
MemberInfo(flags, nameIndex, descIndex, as) == <<flags, nameIndex, descIndex, as>>

RECURSIVE MembersBytes(_)
\* The field or method records.
MembersBytes(ms) ==
    IF Len(ms) = 0 THEN <<>>
    ELSE U2(Head(ms)[1]) \o U2(Head(ms)[2]) \o U2(Head(ms)[3])
             \o U2(Len(Head(ms)[4])) \o AttrsBytes(Head(ms)[4])
             \o MembersBytes(Tail(ms))

\* A method with bytecode; codeIndex is the pool index of the Utf8 "Code".
Method(nameIndex, descIndex, codeIndex, maxLocals, code) ==
    <<1, nameIndex, descIndex,
      <<AttributeInfo(codeIndex, CodeData(4, maxLocals, code))>> >>

\* A method with no attributes (native or abstract).
BodilessMethod(nameIndex, descIndex) == <<257, nameIndex, descIndex, <<>> >>

\* A whole class file.
ClassFile(cp, this, super, fs, ms) ==
    <<202, 254, 186, 190, 0, 0, 0, 52>> \o U2(Len(cp) + 1) \o PoolBytes(cp)
        \o U2(33) \o U2(this) \o U2(super) \o U2(0)
        \o U2(Len(fs)) \o MembersBytes(fs) \o U2(Len(ms)) \o MembersBytes(ms)
        \o U2(0)

(***************************************************************************)
(* Values                                                                  *)
(***************************************************************************)

\* A Value is the Go interface value: its dynamic type k and its content.
\* k = "null" is the nil interface; k = "ref" is a *Object, v its place in
\* the heap; k = "string" is a Go string s; k = "array" is a []Value a.
\* (Values of different dynamic types differ in k or in their field names,
\* so that comparing them never compares a number to a string.)
\* float32 and float64 hold whole numbers only (the literals 0, 1, 2 and
\* their sums, differences and products); int64, float32 and float64
\* arithmetic is exact while the results stay inside -2^31 .. 2^31-1.
Null == [k |-> "null", v |-> 0]
Int32(n) == [k |-> "int32", v |-> n]
Int64(n) == [k |-> "int64", v |-> n]
Int8(n) == [k |-> "int8", v |-> n]
Int16(n) == [k |-> "int16", v |-> n]
Float32(n) == [k |-> "float32", v |-> n]
Float64(n) == [k |-> "float64", v |-> n]
String(s) == [k |-> "string", s |-> s]
Ref(r) == [k |-> "ref", v |-> r]

MinInt32 == -2147483647 - 1
MaxInt32 == 2147483647

\* x + y in int32: the sum modulo 2^32, computed on 16-bit halves.
Add32(x, y) ==
    LET lo == (x % 65536) + (y % 65536)
        hi == (x \div 65536) + (y \div 65536) + (lo \div 65536)
    IN  (((hi + 32768) % 65536) - 32768) * 65536 + (lo % 65536)

\* A faulty Sub32: the operands taken in the other order.
Sub32Reversed(x, y) ==
    LET lo == (y % 65536) - (x % 65536)
        hi == (y \div 65536) - (x \div 65536) + (lo \div 65536)
    IN  (((hi + 32768) % 65536) - 32768) * 65536 + (lo % 65536)

\* x - y in int32.
Sub32(x, y) ==
    LET lo == (x % 65536) - (y % 65536)
        hi == (x \div 65536) - (y \div 65536) + (lo \div 65536)
    IN  (((hi + 32768) % 65536) - 32768) * 65536 + (lo % 65536)

\* x * y in int32: the low 32 bits of the product, by long multiplication
\* on bytes; ByteOf(z, i) is byte i (0 the least significant) of the
\* two's-complement image of z.
Mul32(x, y) ==
    LET ByteOf(z, i) ==
            IF i = 0 THEN z % 256
            ELSE IF i = 1 THEN (z \div 256) % 256
            ELSE IF i = 2 THEN (z \div 65536) % 256
            ELSE (z \div 16777216) % 256
        p(i, j) == ByteOf(x, i) * ByteOf(y, j)
        t0 == p(0, 0)
        t1 == p(0, 1) + p(1, 0) + (t0 \div 256)
        t2 == p(0, 2) + p(1, 1) + p(2, 0) + (t1 \div 256)
        t3 == p(0, 3) + p(1, 2) + p(2, 1) + p(3, 0) + (t2 \div 256)
    IN  Int32OfBytes(<<t3 % 256, t2 % 256, t1 % 256, t0 % 256>>)

\* int8(b) and int16(u) of an unsigned byte and an unsigned 16-bit number.
SignExtend8(b) == IF b >= 128 THEN b - 256 ELSE b
SignExtend16(u) == IF u >= 32768 THEN u - 65536 ELSE u


(***************************************************************************)
(* The class files on the search path                                      *)
(***************************************************************************)

\* testdata/FieldsAndMethods.class, as the compiler writes it for
\* FieldsAndMethods.java.
FieldsAndMethodsPool ==
    << Utf8("FieldsAndMethods"),        \*  1
       ClassRef(1),                     \*  2
       Utf8("java/lang/Object"),        \*  3
       ClassRef(3),                     \*  4
       Utf8("<init>"),                  \*  5
       Utf8("()V"),                     \*  6
       NameAndType(5, 6),               \*  7
       MethodRef(4, 7),                 \*  8  java/lang/Object.<init>
       Utf8("a"),                       \*  9
       Utf8("I"),                       \* 10
       NameAndType(9, 10),              \* 11
       FieldRef(2, 11),                 \* 12  FieldsAndMethods.a
       Utf8("b"),                       \* 13
       NameAndType(13, 10),             \* 14
       FieldRef(2, 14),                 \* 15  FieldsAndMethods.b
       Utf8("Hello world"),             \* 16
       StringRef(16),                   \* 17
       Utf8("Runtime"),                 \* 18
       ClassRef(18),                    \* 19
       Utf8("log"),                     \* 20
       Utf8("(Ljava/lang/String;)V"),   \* 21
       NameAndType(20, 21),             \* 22
       MethodRef(19, 22),               \* 23  Runtime.log
       MethodRef(2, 7),                 \* 24  FieldsAndMethods.<init>
       Utf8("incrementA"),              \* 25
       NameAndType(25, 6),              \* 26
       MethodRef(2, 26),                \* 27  FieldsAndMethods.incrementA
       Utf8("incrementB"),              \* 28
       NameAndType(28, 6),              \* 29
       MethodRef(2, 29),                \* 30  FieldsAndMethods.incrementB
       Utf8("Code"),                    \* 31
       Utf8("add"),                     \* 32
       Utf8("(II)I"),                   \* 33
       Utf8("mul"),                     \* 34
       Utf8("sub"),                     \* 35
       Utf8("hello"),                   \* 36
       Utf8("create"),                  \* 37
       Utf8("()LFieldsAndMethods;"),    \* 38
       Utf8("incrementBoth"),           \* 39
       Utf8("<clinit>") >>              \* 40

FieldsAndMethodsFile ==
    ClassFile(FieldsAndMethodsPool, 2, 4,
        << MemberInfo(1, 9, 10, <<>>),          \* public int a
           MemberInfo(9, 13, 10, <<>>) >>,      \* public static int b
        << \* <init>: aload_0; invokespecial #8; aload_0; iconst_1;
           \*         putfield #12; return
           Method(5, 6, 31, 1, <<42, 183, 0, 8, 42, 4, 181, 0, 12, 177>>),
           \* add: iload_0; iload_1; iadd; ireturn
           Method(32, 33, 31, 2, <<26, 27, 96, 172>>),
           \* mul: iload_0; iload_1; imul; ireturn
           Method(34, 33, 31, 2, <<26, 27, 104, 172>>),
           \* sub: iload_0; iload_1; isub; ireturn
           Method(35, 33, 31, 2, <<26, 27, 100, 172>>),
           \* hello: ldc #17; invokestatic #23; return
           Method(36, 6, 31, 1, <<18, 17, 184, 0, 23, 177>>),
           \* incrementA: aload_0; dup; getfield #12; iconst_1; iadd;
           \*             putfield #12; return
           Method(25, 6, 31, 1, <<42, 89, 180, 0, 12, 4, 96, 181, 0, 12, 177>>),
           \* create: new #2; dup; invokespecial #24; areturn
           Method(37, 38, 31, 0, <<187, 0, 2, 89, 183, 0, 24, 176>>),
           \* incrementB: getstatic #15; iconst_1; iadd; putstatic #15; return
           Method(28, 6, 31, 1, <<178, 0, 15, 4, 96, 179, 0, 15, 177>>),
           \* incrementBoth: aload_0; invokevirtual #27; aload_0;
           \*                invokevirtual #30; return
           Method(39, 6, 31, 1, <<42, 182, 0, 27, 42, 182, 0, 30, 177>>),
           \* <clinit>: iconst_2; putstatic #15; return
           Method(40, 6, 31, 0, <<5, 179, 0, 15, 177>>) >>)

\* testdata/Runtime.class: the class of the native method
\* Runtime.log(String), which has no Code attribute.
RuntimeFile ==
    ClassFile(<< Utf8("Runtime"), ClassRef(1), Utf8("java/lang/Object"),
                 ClassRef(3), Utf8("log"), Utf8("(Ljava/lang/String;)V") >>,
              2, 4, <<>>, << BodilessMethod(5, 6) >>)


(***************************************************************************)
(* Frames and the opcodes that call nothing                                *)
(***************************************************************************)

\* Frame.push
push(f, v) == [f EXCEPT !.Stack = Append(@, v)]

\* The frame after n calls of Frame.pop (n <= the stack's depth).
drop(f, n) == [f EXCEPT !.Stack = SubSeq(@, 1, Len(@) - n)]

\* The value the first and the second Frame.pop return.
top(f) == f.Stack[Len(f.Stack)]
under(f) == f.Stack[Len(f.Stack) - 1]

\* One step's outcome: the frame after it, or a Go panic.
Ok(f) == [panic |-> FALSE, frame |-> f]
Panic(f) == [panic |-> TRUE, frame |-> f]

\* frame.Code[frame.IP+off] can be read.  IP is the uint32 of the code, held
\* as the integer congruent to it modulo 2^32 in -2^31 .. 2^31-1: a negative
\* IP is an index beyond any code.
HasByte(f, off) == f.IP + off >= 0 /\ f.IP + off < Len(f.Code)
ByteAt(f, off) == f.Code[f.IP + off + 1]

\* binary.BigEndian.Uint16(frame.Code[frame.IP+1:]), which panics unless both
\* bytes are there.
Operand16(f) == ByteAt(f, 1) * 256 + ByteAt(f, 2)

\* What the arithmetic opcode op (xADD 96..99, xSUB 100..103, xMUL
\* 104..107) computes from a, popped first, and b, popped second.
Arith(op, a, b) ==
    CASE op = 96 -> Add32(a, b)
      [] op \in 97..99 -> a + b
      [] op = 100 -> Sub32(b, a)
      [] op \in 101..103 -> b - a
      [] op = 104 -> Mul32(a, b)
      [] op \in 105..107 -> a * b

\* pop().(kind) op pop().(kind) for the typed arithmetic opcodes, whose
\* kinds come in the order I, L, F, D.  An empty stack or a value of
\* another dynamic type panics.
Binary(f, op) ==
    LET kind == <<"int32", "int64", "float32", "float64">>[((op - 96) % 4) + 1]
    IN  IF Len(f.Stack) < 2 \/ top(f).k # kind \/ under(f).k # kind
        THEN Panic(f)
        ELSE Ok(push(drop(f, 2),
                     [k |-> kind, v |-> Arith(op, top(f).v, under(f).v)]))

\* push(frame.Locals[i])
LoadLocal(f, i) ==
    IF i >= Len(f.Locals) THEN Panic(f) ELSE Ok(push(f, f.Locals[i + 1]))

\* The body of the switch of VM.exec for every opcode but the returns, the
\* field and invoke opcodes and NEW; cp is frame.Class.ConstPool.  The
\* loop's trailing frame.IP++ is not part of it.
SimpleOp(f, cp, op) ==
    CASE op = 1 -> Ok(push(f, Null))
      [] op \in 2..8 -> Ok(push(f, Int32(op - 3)))
      [] op = 9 -> Ok(push(f, Int64(5)))
      [] op = 10 -> Ok(push(f, Int64(1)))
      [] op \in 11..13 -> Ok(push(f, Float32(op - 11)))
      [] op \in 14..15 -> Ok(push(f, Float64(op - 14)))
      [] op = 16 ->
           IF ~HasByte(f, 1) THEN Panic(f)
           ELSE Ok([push(f, Int8(SignExtend8(ByteAt(f, 1))))
                        EXCEPT !.IP = f.IP + 1])
      [] op = 17 ->
           IF ~HasByte(f, 2) THEN Panic(f)
           ELSE Ok([push(f, Int16(SignExtend16(Operand16(f))))
                        EXCEPT !.IP = f.IP + 2])
      [] op \in 18..20 ->
           IF ~HasByte(f, 1) THEN Panic(f)
           ELSE LET s == Resolve(cp, ByteAt(f, 1))
                IN  IF s.panic THEN Panic(f)
                    ELSE Ok([push(f, String(s.s)) EXCEPT !.IP = f.IP + 1])
      [] op \in 21..25 ->
           IF ~HasByte(f, 1) THEN Panic(f)
           ELSE LET r == LoadLocal(f, ByteAt(f, 1))
                IN  [r EXCEPT !.frame.IP = f.IP + 1]
      [] op \in {26, 30, 34, 38, 42} -> LoadLocal(f, 0)
      [] op \in {27, 31, 35, 39, 43} -> LoadLocal(f, 1)
      [] op \in {28, 32, 36, 40, 44} -> LoadLocal(f, 2)
      [] op \in {29, 33, 37, 41, 45} -> LoadLocal(f, 3)
      [] op \in 46..53 ->
           IF Len(f.Stack) < 2 \/ top(f).k # "array" \/ under(f).k # "int32"
           THEN Panic(f)
           ELSE IF under(f).v < 0 \/ under(f).v >= Len(top(f).a)
           THEN Panic(f)
           ELSE Ok(push(drop(f, 2), top(f).a[under(f).v + 1]))
      [] op = 89 ->
           IF Len(f.Stack) < 1 THEN Panic(f) ELSE Ok(push(f, top(f)))
      [] op = 95 ->
           IF Len(f.Stack) < 2 THEN Panic(f)
           ELSE Ok(push(push(drop(f, 2), top(f)), under(f)))
      [] op \in 96..107 -> Binary(f, op)
      [] op = 167 ->
           IF ~HasByte(f, 2) THEN Panic(f)
           ELSE Ok([f EXCEPT !.IP = f.IP - 3 + Operand16(f)])
      [] OTHER -> Ok(f)

\* The opcodes whose case returns from exec, and those whose case calls
\* VM.Class.
ReturnOps == 172..177
RefOps == 178..184
OpGetStatic == 178
OpPutStatic == 179
OpGetField == 180
OpPutField == 181
OpInvokeVirtual == 182
OpInvokeSpecial == 183
OpInvokeStatic == 184
OpNew == 187

RECURSIVE argcFrom(_, _, _, _)
\* The loop of argc from index i (counted from 0).
argcFrom(desc, i, inClass, n) ==
    IF ~(i < Len(desc))
    THEN 0
    ELSE LET ch == SubSeq(desc, i + 1, i + 1)
         IN  IF inClass
             THEN argcFrom(desc, i + 1, ch # ";", n)
             ELSE IF ch = ")"
             THEN n
             ELSE argcFrom(desc, i + 1, ch = "L", n + 1)

\* argc(desc)
argc(desc) == argcFrom(desc, 1, FALSE, 0)


\* testdata/Base.class and testdata/Derived.class:
\*     class Base { static int x = Derived.y; }
\*     class Derived extends Base { static int y = 5; }
BaseFile ==
    ClassFile(<< Utf8("Base"),              \*  1
                 ClassRef(1),               \*  2
                 Utf8("java/lang/Object"),  \*  3
                 ClassRef(3),               \*  4
                 Utf8("Derived"),           \*  5
                 ClassRef(5),               \*  6
                 Utf8("y"),                 \*  7
                 Utf8("I"),                 \*  8
                 NameAndType(7, 8),         \*  9
                 FieldRef(6, 9),            \* 10  Derived.y
                 Utf8("x"),                 \* 11
                 NameAndType(11, 8),        \* 12
                 FieldRef(2, 12),           \* 13  Base.x
                 Utf8("<clinit>"),          \* 14
                 Utf8("()V"),               \* 15
                 Utf8("Code") >>,           \* 16
              2, 4,
              << MemberInfo(8, 11, 8, <<>>) >>,
              << \* <clinit>: getstatic #10; putstatic #13; return
                 Method(14, 15, 16, 0, <<178, 0, 10, 179, 0, 13, 177>>) >>)

DerivedFile ==
    ClassFile(<< Utf8("Derived"),           \*  1
                 ClassRef(1),               \*  2
                 Utf8("Base"),              \*  3
                 ClassRef(3),               \*  4
                 Utf8("y"),                 \*  5
                 Utf8("I"),                 \*  6
                 NameAndType(5, 6),         \*  7
                 FieldRef(2, 7),            \*  8  Derived.y
                 Utf8("<clinit>"),          \*  9
                 Utf8("()V"),               \* 10
                 Utf8("Code") >>,           \* 11
              2, 4,
              << MemberInfo(8, 5, 6, <<>>) >>,
              << \* <clinit>: iconst_5; putstatic #8; return
                 Method(9, 10, 11, 0, <<8, 179, 0, 8, 177>>) >>)

\* testdata/Natives.class: coded has bytecode, bare has no Code attribute,
\* and the Code attribute of stub is its 8-byte header alone.
NativesFile ==
    ClassFile(<< Utf8("Natives"),           \*  1
                 ClassRef(1),               \*  2
                 Utf8("java/lang/Object"),  \*  3
                 ClassRef(3),               \*  4
                 Utf8("coded"),             \*  5
                 Utf8("()I"),               \*  6
                 Utf8("bare"),              \*  7
                 Utf8("(II)I"),             \*  8
                 Utf8("stub"),              \*  9
                 Utf8("Code") >>,           \* 10
              2, 4, <<>>,
              << \* coded: iconst_3; ireturn
                 Method(5, 6, 10, 0, <<6, 172>>),
                 BodilessMethod(7, 8),
                 MemberInfo(1, 9, 6,
                            << AttributeInfo(10, U2(0) \o U2(0) \o U4(0)) >>) >>)

\* testdata/Calls.class:
\*     class Calls { static int callAdd() { return FieldsAndMethods.add(2, 3); } }
CallsFile ==
    ClassFile(<< Utf8("Calls"),             \*  1
                 ClassRef(1),               \*  2
                 Utf8("java/lang/Object"),  \*  3
                 ClassRef(3),               \*  4
                 Utf8("FieldsAndMethods"),  \*  5
                 ClassRef(5),               \*  6
                 Utf8("add"),               \*  7
                 Utf8("(II)I"),             \*  8
                 NameAndType(7, 8),         \*  9
                 MethodRef(6, 9),           \* 10  FieldsAndMethods.add
                 Utf8("callAdd"),           \* 11
                 Utf8("()I"),               \* 12
                 Utf8("Code") >>,           \* 13
              2, 4, <<>>,
              << \* callAdd: iconst_2; iconst_3; invokestatic #10; ireturn
                 Method(11, 12, 13, 0, <<5, 6, 184, 0, 10, 172>>) >>)

\* testdata/Faults.class: methods that meet a runtime fault.
FaultsFile ==
    ClassFile(<< Utf8("Faults"),            \*  1
                 ClassRef(1),               \*  2
                 Utf8("java/lang/Object"),  \*  3
                 ClassRef(3),               \*  4
                 Utf8("unknown"),           \*  5
                 Utf8("underflow"),         \*  6
                 Utf8("mismatch"),          \*  7
                 Utf8("divzero"),           \*  8
                 Utf8("()I"),               \*  9
                 Utf8("Code") >>,           \* 10
              2, 4, <<>>,
              << \* unknown: iconst_1; (opcode 0xCA); ireturn
                 Method(5, 9, 10, 0, <<4, 202, 172>>),
                 \* underflow: iadd; ireturn
                 Method(6, 9, 10, 0, <<96, 172>>),
                 \* mismatch: aconst_null; iconst_1; iadd; ireturn
                 Method(7, 9, 10, 0, <<1, 4, 96, 172>>),
                 \* divzero: iconst_1; iconst_0; idiv; ireturn
                 Method(8, 9, 10, 0, <<4, 3, 108, 172>>) >>)

\* testdata/Half.class: its <clinit> sets the static a and then refers to a
\* class that is on no path.
\*     class Half { static int a = 1; static int b = Missing.z; }
HalfFile ==
    ClassFile(<< Utf8("Half"),              \*  1
                 ClassRef(1),               \*  2
                 Utf8("java/lang/Object"),  \*  3
                 ClassRef(3),               \*  4
                 Utf8("a"),                 \*  5
                 Utf8("I"),                 \*  6
                 NameAndType(5, 6),         \*  7
                 FieldRef(2, 7),            \*  8  Half.a
                 Utf8("Missing"),           \*  9
                 ClassRef(9),               \* 10
                 Utf8("z"),                 \* 11
                 NameAndType(11, 6),        \* 12
                 FieldRef(10, 12),          \* 13  Missing.z
                 Utf8("b"),                 \* 14
                 NameAndType(14, 6),        \* 15
                 FieldRef(2, 15),           \* 16  Half.b
                 Utf8("<clinit>"),          \* 17
                 Utf8("()V"),               \* 18
                 Utf8("Code") >>,           \* 19
              2, 4,
              << MemberInfo(8, 5, 6, <<>>), MemberInfo(8, 14, 6, <<>>) >>,
              << \* <clinit>: iconst_1; putstatic #8; getstatic #13;
                 \*           putstatic #16; return
                 Method(17, 18, 19, 0,
                        <<4, 179, 0, 8, 178, 0, 13, 179, 0, 16, 177>>) >>)

\* testdata/Ops.class: one short static method for each group of opcodes of
\* VM.exec.
OpsFile ==
    ClassFile(<< Utf8("Ops"),               \*  1
                 ClassRef(1),               \*  2
                 Utf8("java/lang/Object"),  \*  3
                 ClassRef(3),               \*  4
                 Utf8("f"),                 \*  5
                 Utf8("I"),                 \*  6
                 NameAndType(5, 6),         \*  7
                 FieldRef(2, 7),            \*  8  Ops.f
                 Utf8("iload"),             \*  9
                 Utf8("(I)I"),              \* 10
                 NameAndType(9, 10),        \* 11
                 MethodRef(2, 11),          \* 12  Ops.iload
                 Utf8("text"),              \* 13
                 StringRef(13),             \* 14
                 Utf8("Code"),              \* 15
                 Utf8("()V"),               \* 16
                 Utf8("()I"),               \* 17
                 Utf8("<clinit>"),          \* 18
                 Utf8("consts"),            \* 19
                 Utf8("bipush"),            \* 20
                 Utf8("sipush"),            \* 21
                 Utf8("ldc"),               \* 22
                 Utf8("ldcw"),              \* 23
                 Utf8("istore"),            \* 24
                 Utf8("istore0"),           \* 25
                 Utf8("iinc"),              \* 26
                 Utf8("skip"),              \* 27
                 Utf8("taken"),             \* 28
                 Utf8("icmp"),              \* 29
                 Utf8("forward"),           \* 30
                 Utf8("back"),              \* 31
                 Utf8("newarray"),          \* 32
                 Utf8("anewarray"),         \* 33
                 Utf8("pop"),               \* 34
                 Utf8("dup"),               \* 35
                 Utf8("swap"),              \* 36
                 Utf8("getf"),              \* 37
                 Utf8("call"),              \* 38
                 Utf8("make"),              \* 39
                 Utf8("()LOps;") >>,        \* 40
              2, 4,
              << MemberInfo(8, 5, 6, <<>>) >>,      \* static int f
              << \* <clinit>: iconst_2; putstatic #8; return
                 Method(18, 16, 15, 0, <<5, 179, 0, 8, 177>>),
                 \* consts: aconst_null; iconst_m1; iconst_0 .. iconst_5;
                 \*         lconst_0; lconst_1; fconst_0; fconst_1; fconst_2;
                 \*         dconst_0; dconst_1; return
                 Method(19, 16, 15, 0,
                        <<1, 2, 3, 4, 5, 6, 7, 8, 9, 10, 11, 12, 13, 14, 15, 177>>),
                 \* bipush: bipush -1; iconst_1; iadd; ireturn
                 Method(20, 17, 15, 0, <<16, 255, 4, 96, 172>>),
                 \* sipush: sipush -2; ireturn
                 Method(21, 17, 15, 0, <<17, 255, 254, 172>>),
                 \* ldc: ldc #14; areturn
                 Method(22, 17, 15, 0, <<18, 14, 176>>),
                 \* ldcw: ldc_w #14; areturn
                 Method(23, 17, 15, 0, <<19, 0, 14, 176>>),
                 \* iload: iload 0; ireturn
                 Method(9, 10, 15, 1, <<21, 0, 172>>),
                 \* istore: iconst_5; istore 1; iload 1; ireturn
                 Method(24, 17, 15, 2, <<8, 54, 1, 21, 1, 172>>),
                 \* istore0: iconst_5; istore_0; iload_0; ireturn
                 Method(25, 17, 15, 1, <<8, 59, 26, 172>>),
                 \* iinc: iinc 0 1; iload_0; ireturn
                 Method(26, 10, 15, 1, <<132, 0, 1, 26, 172>>),
                 \* skip: iconst_0; ifne +5; iconst_1; ireturn; iconst_2; ireturn
                 Method(27, 17, 15, 0, <<3, 154, 0, 5, 4, 172, 5, 172>>),
                 \* taken: iconst_1; ifne +5; iconst_1; ireturn; iconst_2; ireturn
                 Method(28, 17, 15, 0, <<4, 154, 0, 5, 4, 172, 5, 172>>),
                 \* icmp: iconst_1; iconst_2; if_icmplt +5; iconst_1; ireturn;
                 \*       iconst_2; ireturn
                 Method(29, 17, 15, 0, <<4, 5, 161, 0, 5, 4, 172, 5, 172>>),
                 \* forward: goto +5; iconst_1; ireturn; iconst_2; ireturn
                 Method(30, 17, 15, 0, <<167, 0, 5, 4, 172, 5, 172>>),
                 \* back: nop; goto -1
                 Method(31, 17, 15, 0, <<0, 167, 255, 255>>),
                 \* newarray: iconst_2; newarray int; areturn
                 Method(32, 17, 15, 0, <<5, 188, 10, 176>>),
                 \* anewarray: iconst_1; anewarray #2; areturn
                 Method(33, 17, 15, 0, <<4, 189, 0, 2, 176>>),
                 \* pop: iconst_1; iconst_2; pop; ireturn
                 Method(34, 17, 15, 0, <<4, 5, 87, 172>>),
                 \* dup: iconst_1; dup; iadd; ireturn
                 Method(35, 17, 15, 0, <<4, 89, 96, 172>>),
                 \* swap: iconst_1; iconst_2; swap; isub; ireturn
                 Method(36, 17, 15, 0, <<4, 5, 95, 100, 172>>),
                 \* getf: getstatic #8; ireturn
                 Method(37, 17, 15, 0, <<178, 0, 8, 172>>),
                 \* call: iconst_1; invokestatic #12; return
                 Method(38, 16, 15, 0, <<4, 184, 0, 12, 177>>),
                 \* make: new #2; areturn
                 Method(39, 40, 15, 0, <<187, 0, 2, 176>>) >>)

\* A file cut short after its first n bytes.
Truncated(file, n) == SubSeq(file, 1, n)

\* The search path the VM is made with, and the files under it: the path
\* "<dir>/<name>.class" is the pair <<dir, name>>.
ClassPath == <<"stale", "testdata">>

\* Under stale/ lie two files cut short: Runtime.class without its last two
\* bytes, and Cut.class, cut inside its constant pool.
Disk ==
    (<<"testdata", "FieldsAndMethods">> :> FieldsAndMethodsFile)
        @@ (<<"testdata", "Runtime">> :> RuntimeFile)
        @@ (<<"testdata", "Base">> :> BaseFile)
        @@ (<<"testdata", "Derived">> :> DerivedFile)
        @@ (<<"testdata", "Natives">> :> NativesFile)
        @@ (<<"testdata", "Calls">> :> CallsFile)
        @@ (<<"testdata", "Faults">> :> FaultsFile)
        @@ (<<"testdata", "Half">> :> HalfFile)
        @@ (<<"testdata", "Ops">> :> OpsFile)
        @@ (<<"stale", "Runtime">> :> Truncated(RuntimeFile, Len(RuntimeFile) - 2))
        @@ (<<"stale", "Cut">> :> Truncated(RuntimeFile, 40))

\* What Load returns for each file.  A Class is immutable once loaded, and
\* the state holds a loaded Class as the path of its file: ClassAt gives the
\* Class struct back.  The Class that New builds for java/lang/Object has
\* no file: its place is BootPath.
Loaded == [p \in DOMAIN Disk |-> Load(Disk[p])]

BootPath == <<"", "java/lang/Object">>

BootClass ==
    [ZeroClass EXCEPT !.Name = "java/lang/Object",
                      !.Methods = << [Flags |-> 0, Name |-> "<init>",
                                      Descriptor |-> "()V",
                                      Attributes |-> <<>>] >>]

ClassAt(path) == IF path = BootPath THEN BootClass ELSE Loaded[path].c

\* os.Open and Load on the path of a file: whether the file opens, and what
\* Load returns for it.
Open(loaded, path) ==
    IF path \in DOMAIN loaded
    THEN [open |-> TRUE, ld |-> loaded[path]]
    ELSE [open |-> FALSE, ld |-> LoadPanic]

(***************************************************************************)
(* The VM                                                                  *)
(***************************************************************************)

VARIABLES
    Classes,      \* vm.Classes: the class objects, as places in the heap
    Native,       \* vm.Native: key -> the host function registered
    heap,         \* every Object allocated; a *Object is its place here
    stack,        \* Go's call stack: the activations of Call, Class, exec
    ret,          \* what the call that just returned gave its caller
    crashed,      \* a Go panic has ended the process
    hostOp,       \* the operation the embedder has started
    result,       \* what the operation that just returned gave the embedder
    done,         \* how many operations of each kind have returned
    nativeCalls,  \* the bag of calls made to host functions
    clinit,       \* per Object: the state of its <clinit> run
    lookups,      \* the successful returns of VM.Class: name, object, state
    held,         \* the instances the embedder has been returned
    calls         \* how many operations the embedder has started

vars == <<Classes, Native, heap, stack, ret, crashed, hostOp, result, done,
          nativeCalls, clinit, lookups, held, calls>>

None == [none |-> TRUE]

\* An Object.  Class is the embedded Class struct (as a path, see ClassAt);
\* Fields is the Go map and FieldsNil says that it is the nil map, which
\* reads as empty and panics when written.
Object(class, classInstance, superInstance, fieldsNil) ==
    [Class |-> class, ClassInstance |-> classInstance,
     SuperInstance |-> superInstance, Fields |-> <<>>, FieldsNil |-> fieldsNil]

\* The Class struct embedded in the Object o.
ClassOf(o) == ClassAt(o.Class)

\* Object.Field
Field(o, name) == IF name \in DOMAIN o.Fields THEN o.Fields[name] ELSE Null

\* A faulty SetField, which writes to a copy of the Object: the Object
\* itself is left as it was.
SetFieldOnCopy(o, name, value) == o

\* Object.SetField on an Object whose map is not nil.
SetField(o, name, value) ==
    [o EXCEPT !.Fields = (name :> value) @@ o.Fields]

\* The first of a set of places, 0 when there is none.
First(hits) == IF hits = {} THEN 0 ELSE CHOOSE i \in hits : \A j \in hits : i <= j

\* Object.Method on an Object whose embedded Class is c: the place of the
\* method in c.Methods, 0 for "method not found".
MethodIndex(c, name, desc) ==
    First({i \in 1..Len(c.Methods) :
              /\ c.Methods[i].Name = name
              /\ (desc = "" \/ desc = c.Methods[i].Descriptor)})

\* A faulty first scan, which finds nothing.
RegisteredNever(name) == 0

\* The first scan of VM.Class: the place in vm.Classes of the first class
\* object named name, 0 when there is none.
Registered(name) ==
    First({i \in 1..Len(Classes) : ClassOf(heap[Classes[i]]).Name = name})

\* The host functions: the one New registers for java/lang/Object.<init>,
\* the tests' runtimeLog, whose a.(interface{}) panics on a nil argument,
\* and an embedder's function "seven" that returns int32(7).
NativeResult(fn, args) ==
    IF fn = "runtimeLog" /\ \E i \in 1..Len(args) : args[i].k = "null"
    THEN [panic |-> TRUE, v |-> Null]
    ELSE IF fn = "seven"
    THEN [panic |-> FALSE, v |-> Int32(7)]
    ELSE [panic |-> FALSE, v |-> Null]

\* New(classPath...)
Init ==
    /\ heap = << Object(BootPath, 0, 0, TRUE) >>
    /\ Classes = <<1>>
    /\ Native = ("java/lang/Object.<init>" :> "objectInit")
    /\ stack = <<>>
    /\ ret = None
    /\ crashed = FALSE
    /\ hostOp = None
    /\ result = None
    /\ done = <<>>
    /\ nativeCalls = <<>>
    /\ clinit = <<"none">>
    /\ lookups = {}
    /\ held = {}
    /\ calls = 0


\* Counting in a function from keys to numbers (absent is 0).
Count(f, k) == IF k \in DOMAIN f THEN f[k] ELSE 0
Bump(f, k) == (k :> Count(f, k) + 1) @@ f

Top == stack[Len(stack)]
Caller == SubSeq(stack, 1, Len(stack) - 1)
Running == ~crashed /\ stack # <<>>

\* The stack with its top activation replaced.
WithTop(a) == Append(Caller, a)

\* The activations.  (ExecActivationSharing is a faulty ExecActivation, whose
\* frame starts with its locals on its operand stack as well.)
ClassActivation(name) ==
    [kind |-> "Class", name |-> name, pc |-> "scan", path |-> 0,
     c |-> <<>>, classObj |-> 0]
CallActivation(class, method, args) ==
    [kind |-> "Call", class |-> class, method |-> method, args |-> args,
     pc |-> "class", c |-> 0]
ExecActivationSharing(frame) ==
    [kind |-> "exec", frame |-> [frame EXCEPT !.Stack = frame.Locals],
     pc |-> "run", op |-> 0, name |-> "", desc |-> "", n |-> 0]
ExecActivation(frame) ==
    [kind |-> "exec", frame |-> frame, pc |-> "run", op |-> 0, name |-> "",
     desc |-> "", n |-> 0]

\* What a step does to the call stack: the new stack, what was returned to
\* the activation now on top (None when a call was entered or the step
\* stays in its activation), whether the process panicked, and the calls
\* made to a host function (a sequence of at most one call).
Outcome(s, r, native) ==
    [stack |-> s, ret |-> r, crashed |-> FALSE, native |-> native]
Goes(s) == Outcome(s, None, <<>>)
Returns(s, v, err) == Outcome(s, [v |-> v, err |-> err], <<>>)
Panics == [stack |-> stack, ret |-> ret, crashed |-> TRUE, native |-> <<>>]

\* A faulty callMethod, which asks the native registry before it looks for
\* a Code attribute.
callMethodNativeFirst(s, obj, className, m, args) ==
    LET codes == {i \in 1..Len(m.Attributes) :
                     /\ m.Attributes[i].Name = "Code"
                     /\ Len(m.Attributes[i].Data) > 8}
        a == m.Attributes[CHOOSE i \in codes : \A j \in codes : i <= j]
        maxLocals == Uint16(SubSeq(a.Data, 3, 4))
        key == className \o "." \o m.Name
    IN  IF key \in DOMAIN Native
        THEN Outcome(s, [v |-> NativeResult(Native[key], args).v, err |-> ""],
                     << [key |-> key, args |-> args] >>)
        ELSE IF codes # {}
        THEN Goes(Append(s, ExecActivation(
                 [Class |-> obj, IP |-> 0,
                  Code |-> SubSeq(a.Data, 9, Len(a.Data)),
                  Locals |-> [i \in 1..maxLocals |->
                                 IF i <= Len(args) THEN args[i] ELSE Null],
                  Stack |-> <<>>])))
        ELSE Returns(s, Null, "method code not found")

\* VM.callMethod(obj, m, args...) called with s as the stack of its caller:
\* the first Code attribute longer than its 8-byte header is run in a new
\* frame (copying more arguments than max_locals panics); failing that the
\* native registered for <class>.<method> is called; failing that it is an
\* error.  obj is a place in the heap and className is obj.Name.
callMethod(s, obj, className, m, args) ==
    LET codes == {i \in 1..Len(m.Attributes) :
                     /\ m.Attributes[i].Name = "Code"
                     /\ Len(m.Attributes[i].Data) > 8}
        a == m.Attributes[CHOOSE i \in codes : \A j \in codes : i <= j]
        maxLocals == Uint16(SubSeq(a.Data, 3, 4))
        key == className \o "." \o m.Name
    IN  IF codes # {}
        THEN IF Len(args) > maxLocals
             THEN Panics
             ELSE Goes(Append(s, ExecActivation(
                      [Class |-> obj, IP |-> 0,
                       Code |-> SubSeq(a.Data, 9, Len(a.Data)),
                       Locals |-> [i \in 1..maxLocals |->
                                      IF i <= Len(args) THEN args[i] ELSE Null],
                       Stack |-> <<>>])))
        ELSE IF key \in DOMAIN Native
        THEN IF NativeResult(Native[key], args).panic
             THEN Panics
             ELSE Outcome(s, [v |-> NativeResult(Native[key], args).v,
                              err |-> ""],
                          << [key |-> key, args |-> args] >>)
        ELSE Returns(s, Null, "method code not found")

\* VM.CallMethod once obj.Method has answered with the place i of the method
\* in c.Methods; c is the Class embedded in obj.
CallFound(s, obj, c, i, args) ==
    IF i = 0
    THEN Returns(s, Null, "method not found")
    ELSE callMethod(s, obj, c.Name, c.Methods[i], args)

\* VM.CallMethod on an object obj whose embedded Class is c.
CallIn(s, obj, c, method, desc, args) ==
    CallFound(s, obj, c, MethodIndex(c, method, desc), args)

\* VM.CallMethod(obj, method, desc, args...) called with s as the stack of
\* its caller.
CallMethod(s, obj, method, desc, args) ==
    CallIn(s, obj, ClassOf(heap[obj]), method, desc, args)

\* The step takes the outcome o.
Take(o) ==
    /\ stack' = o.stack
    /\ ret' = o.ret
    /\ crashed' = o.crashed
    /\ nativeCalls' = IF o.native = <<>> THEN nativeCalls
                      ELSE Bump(nativeCalls, o.native[1])


(***************************************************************************)
(* VM.Class                                                                *)
(***************************************************************************)

\* A successful return of VM.Class, as the history records it.
Lookup(name, obj, state, loaded) ==
    [name |-> name, obj |-> obj, clinit |-> state, loaded |-> loaded]

\* The first loop of VM.Class: a class object of that name is returned.
ClassScan ==
    /\ Running /\ Top.kind = "Class" /\ Top.pc = "scan"
    /\ \E i \in {Registered(Top.name)} :
          IF i # 0
          THEN /\ Take(Returns(Caller, Ref(Classes[i]), ""))
               /\ lookups' = lookups \cup
                      {Lookup(Top.name, Classes[i], clinit[Classes[i]], FALSE)}
          ELSE /\ Take(IF ClassPath = <<>>
                       THEN Returns(Caller, Null, "class not found")
                       ELSE Goes(WithTop([Top EXCEPT !.pc = "path",
                                                     !.path = 1])))
               /\ UNCHANGED lookups
    /\ UNCHANGED <<Classes, Native, heap, hostOp, result, done, clinit, held,
                   calls>>

\* The tail of one iteration of the second loop, from the new class object
\* on: it is appended to vm.Classes and its <clinit>()V, if it has one, is
\* called.  c is the Class that Load returned, path the path of its file
\* and super the place of the super class object, 0 for nil.
Register(path, c, super) ==
    LET obj == Len(heap) + 1
        classObj == Object(path, 0, super, FALSE)
        i == MethodIndex(c, "<clinit>", "()V")
        s == WithTop([Top EXCEPT !.pc = "clinit", !.c = path, !.classObj = obj])
    IN  /\ heap' = Append(heap, classObj)
        /\ Classes' = Append(Classes, obj)
        /\ IF i # 0
           THEN /\ Take(callMethod(s, obj, c.Name, c.Methods[i], <<>>))
                /\ clinit' = Append(clinit, "running")
                /\ UNCHANGED lookups
           ELSE /\ Take(Returns(Caller, Ref(obj), ""))
                /\ clinit' = Append(clinit, "none")
                /\ lookups' = lookups \cup {Lookup(Top.name, obj, "none", TRUE)}

\* One iteration of the second loop of VM.Class, up to the call of
\* vm.Class(c.Super): a directory whose file does not open, or whose Load
\* returns an error, is passed over.
ClassTry ==
    /\ Running /\ Top.kind = "Class" /\ Top.pc = "path"
    /\ \E p \in {<<ClassPath[Top.path], Top.name>>} :
       \E f \in {Open(Loaded, p)} :
          IF ~f.open \/ (~f.ld.panic /\ f.ld.err # "")
          THEN /\ Take(IF Top.path = Len(ClassPath)
                       THEN Returns(Caller, Null, "class not found")
                       ELSE Goes(WithTop([Top EXCEPT !.path = @ + 1])))
               /\ UNCHANGED <<Classes, heap, clinit, lookups>>
          ELSE IF f.ld.panic
          THEN /\ Take(Panics)
               /\ UNCHANGED <<Classes, heap, clinit, lookups>>
          ELSE IF f.ld.c.Super # ""
          THEN /\ Take(Goes(Append(WithTop([Top EXCEPT !.pc = "super",
                                                       !.c = p]),
                                   ClassActivation(f.ld.c.Super))))
               /\ UNCHANGED <<Classes, heap, clinit, lookups>>
          ELSE Register(p, f.ld.c, 0)
    /\ UNCHANGED <<Native, hostOp, result, done, held, calls>>

\* vm.Class(c.Super) has returned.
ClassSuper ==
    /\ Running /\ Top.kind = "Class" /\ Top.pc = "super" /\ ret # None
    /\ IF ret.err # ""
       THEN /\ Take(Returns(Caller, Null, ret.err))
            /\ UNCHANGED <<Classes, heap, clinit, lookups>>
       ELSE Register(Top.c, ClassAt(Top.c), ret.v.v)
    /\ UNCHANGED <<Native, hostOp, result, done, held, calls>>

\* A faulty ClassClinit, which takes the class out of the registry again when
\* its <clinit> has failed.
ClassClinitRollingBack ==
    /\ Running /\ Top.kind = "Class" /\ Top.pc = "clinit" /\ ret # None
    /\ IF ret.err # ""
       THEN /\ Take(Returns(Caller, Null, ret.err))
            /\ clinit' = [clinit EXCEPT ![Top.classObj] = "failed"]
            /\ Classes' = SelectSeq(Classes, LAMBDA o : o # Top.classObj)
            /\ UNCHANGED lookups
       ELSE /\ Take(Returns(Caller, Ref(Top.classObj), ""))
            /\ clinit' = [clinit EXCEPT ![Top.classObj] = "done"]
            /\ lookups' = lookups \cup
                   {Lookup(Top.name, Top.classObj, "done", TRUE)}
            /\ UNCHANGED Classes
    /\ UNCHANGED <<Native, heap, hostOp, result, done, held, calls>>

\* The call of <clinit> has returned.
ClassClinit ==
    /\ Running /\ Top.kind = "Class" /\ Top.pc = "clinit" /\ ret # None
    /\ IF ret.err # ""
       THEN /\ Take(Returns(Caller, Null, ret.err))
            /\ clinit' = [clinit EXCEPT ![Top.classObj] = "failed"]
            /\ UNCHANGED lookups
       ELSE /\ Take(Returns(Caller, Ref(Top.classObj), ""))
            /\ clinit' = [clinit EXCEPT ![Top.classObj] = "done"]
            /\ lookups' = lookups \cup
                   {Lookup(Top.name, Top.classObj, "done", TRUE)}
    /\ UNCHANGED <<Classes, Native, heap, hostOp, result, done, held, calls>>

(***************************************************************************)
(* VM.exec                                                                 *)
(***************************************************************************)

Frame == Top.frame
Pool == ClassOf(heap[Frame.Class]).ConstPool

\* The opcode at frame.IP (when there is one).
Opcode == ByteAt(Frame, 0)

\* cp[index-1], with index-1 computed in uint16: whether it is in the pool,
\* and the entry.
InPool(cp, index) == (index + 65535) % 65536 < Len(cp)
Entry(cp, index) == cp[((index + 65535) % 65536) + 1]

\* One iteration of the loop of exec for an opcode whose case calls nothing
\* and does not return; reading an opcode beyond the code panics.
ExecSimple ==
    /\ Running /\ Top.kind = "exec" /\ Top.pc = "run"
    /\ HasByte(Frame, 0) => Opcode \notin ReturnOps \cup RefOps \cup {OpNew}
    /\ LET r == SimpleOp(Frame, Pool, Opcode)
       IN  Take(IF ~HasByte(Frame, 0) THEN Panics
                ELSE IF r.panic THEN Panics
                ELSE Goes(WithTop([Top EXCEPT
                                     !.frame = [r.frame EXCEPT !.IP = @ + 1]])))
    /\ UNCHANGED <<Classes, Native, heap, hostOp, result, done, clinit,
                   lookups, held, calls>>

\* xRETURN and RETURN.
ExecReturn ==
    /\ Running /\ Top.kind = "exec" /\ Top.pc = "run"
    /\ HasByte(Frame, 0) /\ Opcode \in ReturnOps
    /\ Take(IF Opcode = 177 THEN Returns(Caller, Null, "")
            ELSE IF Frame.Stack = <<>> THEN Panics
            ELSE Returns(Caller, top(Frame), ""))
    /\ UNCHANGED <<Classes, Native, heap, hostOp, result, done, clinit,
                   lookups, held, calls>>

\* The prologue the field and invoke opcodes share, up to the call of
\* vm.Class(className).
ExecRef ==
    /\ Running /\ Top.kind = "exec" /\ Top.pc = "run"
    /\ HasByte(Frame, 0) /\ Opcode \in RefOps
    /\ \E cp \in {Pool} :
       LET index == Operand16(Frame)
           ref == Entry(cp, index)
           className == Resolve(cp, ref.ClassIndex)
           nt == Entry(cp, ref.NameAndTypeIndex)
           name == Resolve(cp, nt.NameIndex)
           desc == Resolve(cp, nt.DescIndex)
       IN  Take(IF ~HasByte(Frame, 2) THEN Panics
                ELSE IF ~InPool(cp, index) THEN Panics
                ELSE IF className.panic THEN Panics
                ELSE IF ~InPool(cp, ref.NameAndTypeIndex) THEN Panics
                ELSE IF name.panic \/ desc.panic THEN Panics
                ELSE Goes(Append(WithTop([Top EXCEPT
                                            !.frame.IP = @ + 2,
                                            !.pc = "class",
                                            !.op = Opcode,
                                            !.name = name.s,
                                            !.desc = desc.s]),
                                 ClassActivation(className.s))))
    /\ UNCHANGED <<Classes, Native, heap, hostOp, result, done, clinit,
                   lookups, held, calls>>

\* The switch on op once vm.Class has returned the class object c (a place
\* in the heap) to the activation a: the outcome and the heap after it.
RefOp(a, c) ==
    LET f == a.frame
        Step(fr) == Goes(WithTop([a EXCEPT !.pc = "run",
                                           !.frame = [fr EXCEPT !.IP = @ + 1]]))
        Same(o) == [o |-> o, heap |-> heap]
        n == argc(a.desc)
        depth == Len(f.Stack)
        waiting == WithTop([a EXCEPT !.pc = "invoke", !.n = n])
    IN  CASE a.op = OpGetStatic ->
               Same(Step(push(f, Field(heap[c], a.name))))
          [] a.op = OpPutStatic ->
               IF depth < 1 \/ heap[c].FieldsNil
               THEN Same(Panics)
               ELSE [o |-> Step(drop(f, 1)),
                     heap |-> [heap EXCEPT ![c] = SetField(@, a.name, top(f))]]
          [] a.op = OpGetField ->
               IF depth < 1 \/ top(f).k # "ref"
               THEN Same(Panics)
               ELSE Same(Step(push(drop(f, 1), Field(heap[top(f).v], a.name))))
          [] a.op = OpPutField ->
               IF depth < 2 \/ under(f).k # "ref"
               THEN Same(Panics)
               ELSE IF heap[under(f).v].FieldsNil
               THEN Same(Panics)
               ELSE [o |-> Step(drop(f, 2)),
                     heap |-> [heap EXCEPT
                                 ![under(f).v] = SetField(@, a.name, top(f))]]
          [] a.op \in {OpInvokeVirtual, OpInvokeSpecial} ->
               IF depth - n - 1 < 0
               THEN Same(Panics)
               ELSE Same(CallMethod(waiting, c, a.name, a.desc,
                                    SubSeq(f.Stack, depth - n, depth)))
          [] a.op = OpInvokeStatic ->
               IF depth - n < 0
               THEN Same(Panics)
               ELSE Same(CallMethod(waiting, c, a.name, a.desc,
                                    SubSeq(f.Stack, depth - n + 1, depth)))

\* vm.Class(className) has returned to a field or invoke opcode.
ExecAfterClass ==
    /\ Running /\ Top.kind = "exec" /\ Top.pc = "class" /\ ret # None
    /\ IF ret.err # ""
       THEN /\ Take(Returns(Caller, Null, ret.err))
            /\ UNCHANGED heap
       ELSE \E r \in {RefOp(Top, ret.v.v)} :
               /\ Take(r.o)
               /\ heap' = r.heap
    /\ UNCHANGED <<Classes, Native, hostOp, result, done, clinit, lookups,
                   held, calls>>

\* vm.CallMethod has returned to an invoke opcode: on an error exec returns
\* it; otherwise n slots are cut from the stack and res is dropped.
AfterInvoke(a, r) ==
    IF r.err # ""
    THEN Returns(Caller, Null, r.err)
    ELSE Goes(WithTop([a EXCEPT !.pc = "run",
                                !.frame = [drop(a.frame, a.n)
                                              EXCEPT !.IP = @ + 1]]))

ExecAfterInvoke ==
    /\ Running /\ Top.kind = "exec" /\ Top.pc = "invoke" /\ ret # None
    /\ Take(AfterInvoke(Top, ret))
    /\ UNCHANGED <<Classes, Native, heap, hostOp, result, done, clinit,
                   lookups, held, calls>>

\* NEW, up to the call of vm.Class(className).
ExecNew ==
    /\ Running /\ Top.kind = "exec" /\ Top.pc = "run"
    /\ HasByte(Frame, 0) /\ Opcode = OpNew
    /\ \E cp \in {Pool} :
       LET index == Operand16(Frame)
           className == Resolve(cp, Entry(cp, index).NameIndex)
       IN  Take(IF ~HasByte(Frame, 2) THEN Panics
                ELSE IF ~InPool(cp, index) THEN Panics
                ELSE IF className.panic THEN Panics
                ELSE Goes(Append(WithTop([Top EXCEPT !.frame.IP = @ + 2,
                                                     !.pc = "new",
                                                     !.op = Opcode]),
                                 ClassActivation(className.s))))
    /\ UNCHANGED <<Classes, Native, heap, hostOp, result, done, clinit,
                   lookups, held, calls>>

\* Object.New
New(o, c) == Object(o.Class, c, 0, FALSE)

\* vm.Class(className) has returned to NEW.
ExecAfterNew ==
    /\ Running /\ Top.kind = "exec" /\ Top.pc = "new" /\ ret # None
    /\ IF ret.err # ""
       THEN /\ Take(Returns(Caller, Null, ret.err))
            /\ UNCHANGED <<heap, clinit>>
       ELSE /\ Take(Goes(WithTop([Top EXCEPT
                !.pc = "run",
                !.frame = [push(Frame, Ref(Len(heap) + 1))
                              EXCEPT !.IP = @ + 1]])))
            /\ heap' = Append(heap, New(heap[ret.v.v], ret.v.v))
            /\ clinit' = Append(clinit, "none")
    /\ UNCHANGED <<Classes, Native, hostOp, result, done, lookups, held,
                   calls>>


(***************************************************************************)
(* The embedding API                                                       *)
(***************************************************************************)

\* How many operations the embedder starts on one VM.
MaxCalls == 3

\* An operation of the embedder.
Op(api, class, method, desc, obj, args) ==
    [api |-> api, class |-> class, method |-> method, desc |-> desc,
     obj |-> obj, args |-> args]

\* The argument pairs of the arithmetic calls.
ArgPairs ==
    { <<2, 3>>, <<-7, 3>>, <<MaxInt32, 1>>, <<MinInt32, 1>>, <<46341, 46341>> }

\* The calls the embedder makes: vm.Call(class, method, args...).
CallMenu ==
    { Op("Call", "FieldsAndMethods", m, "", 0, <<Int32(p[1]), Int32(p[2])>>) :
          m \in {"add", "sub", "mul"}, p \in ArgPairs }
    \cup { Op("Call", "FieldsAndMethods", m, "", 0, <<>>) :
               m \in {"hello", "create", "incrementB"} }
    \cup { Op("Call", "FieldsAndMethods", m, "", 0, <<Ref(o)>>) :
               m \in {"incrementA", "incrementBoth"}, o \in held }
    \cup { Op("Call", "Natives", m, "", 0, <<>>) : m \in {"coded", "stub"} }
    \cup { Op("Call", "Natives", "bare", "", 0, <<Int32(1), Int32(2)>>),
           Op("Call", "Calls", "callAdd", "", 0, <<>>) }
    \cup { Op("Call", "Faults", m, "", 0, <<>>) :
               m \in {"unknown", "underflow", "mismatch", "divzero"} }

\* The names the embedder looks up: vm.Class(name).
ClassMenu ==
    {"FieldsAndMethods", "Runtime", "Base", "Derived", "Missing", "Cut", "Half"}

\* The natives the embedder registers: vm.RegisterNative(class, method,
\* desc, f), as key and host function.
NativeMenu ==
    { <<"Runtime.log", "runtimeLog">>, <<"Natives.coded", "seven">>,
      <<"Natives.bare", "seven">>, <<"Natives.stub", "seven">> }

Idle == ~crashed /\ stack = <<>> /\ ret = None

\* vm.Call(class, method, args...), up to its call of vm.Class.
HostCall ==
    /\ Idle /\ calls < MaxCalls
    /\ \E op \in CallMenu :
          /\ hostOp' = op
          /\ stack' = << CallActivation(op.class, op.method, op.args),
                         ClassActivation(op.class) >>
    /\ calls' = calls + 1
    /\ result' = None
    /\ UNCHANGED <<Classes, Native, heap, ret, crashed, done, nativeCalls,
                   clinit, lookups, held>>

\* vm.Class has returned to vm.Call: the method is looked up by its name
\* alone and called.
CallAfterClass ==
    /\ Running /\ Top.kind = "Call" /\ Top.pc = "class" /\ ret # None
    /\ IF ret.err # ""
       THEN Take(Returns(Caller, Null, ret.err))
       ELSE \E c \in {ClassOf(heap[ret.v.v])} :
            \E i \in {MethodIndex(c, Top.method, "")} :
               Take(IF i = 0 THEN Returns(Caller, Null, "method not found")
                    ELSE callMethod(WithTop([Top EXCEPT !.pc = "method",
                                                        !.c = ret.v.v]),
                                    ret.v.v, c.Name, c.Methods[i], Top.args))
    /\ UNCHANGED <<Classes, Native, heap, hostOp, result, done, clinit,
                   lookups, held, calls>>

\* vm.callMethod has returned to vm.Call, which returns what it got.
CallAfterMethod ==
    /\ Running /\ Top.kind = "Call" /\ Top.pc = "method" /\ ret # None
    /\ Take(Returns(Caller, ret.v, ret.err))
    /\ UNCHANGED <<Classes, Native, heap, hostOp, result, done, clinit,
                   lookups, held, calls>>

\* vm.Class(name), called by the embedder.
HostClass ==
    /\ Idle /\ calls < MaxCalls
    /\ \E name \in ClassMenu :
          /\ hostOp' = Op("Class", name, "", "", 0, <<>>)
          /\ stack' = << ClassActivation(name) >>
    /\ calls' = calls + 1
    /\ result' = None
    /\ UNCHANGED <<Classes, Native, heap, ret, crashed, done, nativeCalls,
                   clinit, lookups, held>>

\* vm.CallMethod(obj, method, desc, args...), called by the embedder on a
\* class object of the registry.
HostCallMethod ==
    /\ Idle /\ calls < MaxCalls
    /\ \E i \in 1..Len(Classes), m \in {"incrementB", "<clinit>"} :
       \E c \in {ClassOf(heap[Classes[i]])} :
          /\ hostOp' = Op("CallMethod", c.Name, m, "()V", Classes[i], <<>>)
          /\ Take(CallIn(<<>>, Classes[i], c, m, "()V", <<>>))
    /\ calls' = calls + 1
    /\ result' = None
    /\ UNCHANGED <<Classes, Native, heap, done, clinit, lookups, held>>

\* vm.RegisterNative(class, method, desc, f): the last writer wins.
HostRegisterNative ==
    /\ Idle /\ calls < MaxCalls
    /\ \E n \in NativeMenu :
          /\ n[1] \notin DOMAIN Native
          /\ Native' = (n[1] :> n[2]) @@ Native
    /\ calls' = calls + 1
    /\ result' = None
    /\ UNCHANGED <<Classes, heap, stack, ret, crashed, hostOp, done,
                   nativeCalls, clinit, lookups, held>>

\* The kind of an operation that has returned, for counting: its API, class
\* and method, the receiver it was given (0 for none) and whether it
\* returned no error.
Kind(op, err) ==
    [api |-> op.api, class |-> op.class, method |-> op.method,
     recv |-> IF op.args # <<>> /\ op.args[1].k = "ref"
              THEN op.args[1].v ELSE 0,
     ok |-> err = ""]

\* The operation has returned to the embedder.
HostReturn ==
    /\ ~crashed /\ stack = <<>> /\ ret # None
    /\ result' = [op |-> hostOp, v |-> ret.v, err |-> ret.err]
    /\ done' = Bump(done, Kind(hostOp, ret.err))
    /\ held' = IF ret.v.k = "ref" /\ heap[ret.v.v].ClassInstance # 0
               THEN held \cup {ret.v.v} ELSE held
    /\ ret' = None
    /\ hostOp' = None
    /\ UNCHANGED <<Classes, Native, heap, stack, crashed, nativeCalls, clinit,
                   lookups, calls>>

Next ==
    \/ HostCall \/ CallAfterClass \/ CallAfterMethod
    \/ HostClass \/ HostCallMethod \/ HostRegisterNative \/ HostReturn
    \/ ClassScan \/ ClassTry \/ ClassSuper \/ ClassClinit
    \/ ExecSimple \/ ExecReturn \/ ExecRef \/ ExecAfterClass
    \/ ExecAfterInvoke \/ ExecNew \/ ExecAfterNew

Spec == Init /\ [][Next]_vars

(***************************************************************************)
(* Load, called by the embedder                                            *)
(***************************************************************************)

\* Runtime.class with the tag of its fifth constant replaced by tag, which
\* Load does not support.
BadTagFile(tag) == [RuntimeFile EXCEPT ![46] = tag]

\* The streams the embedder hands to Load: Runtime.class whole, cut short
\* at every byte position, and with a constant of an unsupported tag.
LoadMenu ==
    {RuntimeFile}
        \cup {Truncated(RuntimeFile, n) : n \in 0..(Len(RuntimeFile) - 1)}
        \cup {BadTagFile(t) : t \in {2, 15, 16, 18}}

\* Load(r) is called.
HostLoad ==
    /\ Idle /\ calls < MaxCalls
    /\ \E r \in LoadMenu :
          /\ hostOp' = Op("Load", "", "", "", 0, <<[k |-> "stream", r |-> r]>>)
          /\ stack' = << [kind |-> "Load", r |-> r, pc |-> "load"] >>
    /\ calls' = calls + 1
    /\ result' = None
    /\ UNCHANGED <<Classes, Native, heap, ret, crashed, done, nativeCalls,
                   clinit, lookups, held>>

\* Load runs to its end: it returns the Class and the latched error, or it
\* panics.
LoadRun ==
    /\ Running /\ Top.kind = "Load"
    /\ LET ld == Load(Top.r)
       IN  Take(IF ld.panic THEN Panics
                ELSE Returns(Caller, [k |-> "class", c |-> ld.c], ld.err))
    /\ UNCHANGED <<Classes, Native, heap, hostOp, result, done, clinit,
                   lookups, held, calls>>

SpecLoad == Init /\ [][HostLoad \/ LoadRun \/ HostReturn]_vars

(***************************************************************************)
(* The opcodes, one method at a time                                       *)
(***************************************************************************)

\* vm.Call("Ops", method, args...) for a method of testdata/Ops.class, up to
\* its call of vm.Class.
HostOps ==
    /\ Idle /\ calls < MaxCalls
    /\ \E op \in
           { Op("Call", "Ops", m, "", 0, <<>>) :
                 m \in {"consts", "bipush", "sipush", "ldc", "ldcw", "istore",
                        "istore0", "skip", "taken", "icmp", "forward", "back",
                        "newarray", "anewarray", "pop", "dup", "swap", "getf",
                        "call", "make"} }
           \cup { Op("Call", "Ops", m, "", 0, <<Int32(9)>>) :
                      m \in {"iload", "iinc"} } :
          /\ hostOp' = op
          /\ stack' = << CallActivation(op.class, op.method, op.args),
                         ClassActivation(op.class) >>
    /\ calls' = calls + 1
    /\ result' = None
    /\ UNCHANGED <<Classes, Native, heap, ret, crashed, done, nativeCalls,
                   clinit, lookups, held>>

\* A VM whose embedder calls the methods of Ops.
SpecOps ==
    Init /\ [][ \/ HostOps \/ CallAfterClass \/ CallAfterMethod \/ HostReturn
                \/ ClassScan \/ ClassTry \/ ClassSuper \/ ClassClinit
                \/ ExecSimple \/ ExecReturn \/ ExecRef \/ ExecAfterClass
                \/ ExecAfterInvoke \/ ExecNew \/ ExecAfterNew ]_vars

(***************************************************************************)
(* argc, applied to descriptors                                            *)
(***************************************************************************)

\* argc(desc) is computed for a method descriptor of up to three parameters,
\* each an int, a long, an object or an array of these; what it returned is
\* kept in result.
HostArgc ==
    /\ Idle /\ calls < MaxCalls
    /\ \E n \in 0..3 :
       \E ps \in [1..n -> {"I", "J", "LIL;", "Ljava/lang/String;", "[I",
                           "[[J", "[Ljava/lang/String;"}] :
          LET desc == "(" \o (IF n >= 1 THEN ps[1] ELSE "")
                          \o (IF n >= 2 THEN ps[2] ELSE "")
                          \o (IF n >= 3 THEN ps[3] ELSE "") \o ")V"
          IN  result' = [op |-> Op("argc", "", "", desc, 0, <<>>),
                         v |-> [k |-> "int", v |-> argc(desc)], err |-> ""]
    /\ calls' = calls + 1
    /\ UNCHANGED <<Classes, Native, heap, stack, ret, crashed, hostOp, done,
                   nativeCalls, clinit, lookups, held>>

SpecArgc == Init /\ [][HostArgc]_vars

(***************************************************************************)
(* Properties                                                              *)
(***************************************************************************)

\* The class objects: the Objects that VM.Class has built, and the one New
\* registers for java/lang/Object.
ClassObjects == {o \in 1..Len(heap) : heap[o].ClassInstance = 0}

\* The name of the class of the Object at place o.
NameOf(o) == ClassOf(heap[o]).Name

\* C1: the <clinit> of a class runs once, it has completed when the lookup
\* that loaded the class returns, and every lookup of one name returns the
\* same class object.  (Does not hold: see C1_FailingLookup.)
C1_ClinitOnce ==
    /\ \A o1, o2 \in ClassObjects :
          (clinit[o1] # "none" /\ clinit[o2] # "none" /\ NameOf(o1) = NameOf(o2))
              => o1 = o2
    /\ \A l \in lookups : l.loaded => l.clinit \in {"none", "done"}
    /\ \A l1, l2 \in lookups : l1.name = l2.name => l1.obj = l2.obj

\* The lookup that breaks C1: Class("Derived") has returned a class object
\* whose <clinit> ran, while a second object of that name, whose <clinit>
\* ran too, is the one later lookups find.
C1_FailingLookup ==
    /\ result # None /\ result.op.api = "Class" /\ result.op.class = "Derived"
    /\ result.err = ""
    /\ clinit[result.v.v] = "done"
    /\ Classes[Registered("Derived")] # result.v.v
    /\ clinit[Classes[Registered("Derived")]] = "done"

\* C2: the registry holds at most one class object per class name.  (Does
\* not hold: see C2_TwoObjects.)
C2_OneObjectPerName ==
    \A i, j \in 1..Len(Classes) :
        NameOf(Classes[i]) = NameOf(Classes[j]) => i = j

\* The registry with two class objects named Derived.
C2_TwoObjects ==
    Cardinality({i \in 1..Len(Classes) : NameOf(Classes[i]) = "Derived"}) = 2

\* How many operations of one kind have returned without an error; recv is
\* the receiver the operation was given, 0 for none.
Returned(api, class, method, recv) ==
    Count(done, [api |-> api, class |-> class, method |-> method,
                 recv |-> recv, ok |-> TRUE])

\* Every operation that has returned was Call("FieldsAndMethods",
\* "incrementB") or a lookup of FieldsAndMethods.
OnlyIncrementB ==
    \A k \in DOMAIN done :
        /\ k.class = "FieldsAndMethods"
        /\ (k.api = "Call" /\ k.method = "incrementB") \/ k.api = "Class"

\* C3: with nothing else called, every Call("FieldsAndMethods",
\* "incrementB") returns null and no error, and a lookup of FieldsAndMethods
\* after k of them returns the class object with its static field b at
\* int32(2 + k).
C3_IncrementB ==
    (result # None /\ OnlyIncrementB) =>
        /\ result.err = ""
        /\ result.op.api = "Call" => result.v = Null
        /\ result.op.api = "Class" =>
               /\ result.v.k = "ref"
               /\ NameOf(result.v.v) = "FieldsAndMethods"
               /\ Field(heap[result.v.v], "b") =
                      Int32(2 + Returned("Call", "FieldsAndMethods", "incrementB", 0))

\* Two calls of incrementB, then the lookup: b is 4.
C3_Witness ==
    /\ result # None /\ OnlyIncrementB /\ result.op.api = "Class"
    /\ Returned("Call", "FieldsAndMethods", "incrementB", 0) = 2
    /\ Field(heap[result.v.v], "b") = Int32(4)

\* Every operation that has returned with the instance o as its receiver
\* was a Call of incrementA that gave no error.
OnlyIncrementA(o) ==
    \A k \in DOMAIN done : k.recv = o => (k.method = "incrementA" /\ k.ok)

\* C4: Call("FieldsAndMethods", "create") returns an instance of
\* FieldsAndMethods whose field a is int32(1), and after k calls of
\* incrementA on that instance, and nothing else on it, its a is
\* int32(1 + k).
C4_InstanceField ==
    /\ (result # None /\ result.op.api = "Call" /\ result.op.method = "create") =>
           /\ result.err = ""
           /\ result.v.k = "ref"
           /\ heap[result.v.v].ClassInstance # 0
           /\ NameOf(result.v.v) = "FieldsAndMethods"
           /\ Field(heap[result.v.v], "a") = Int32(1)
    /\ \A o \in held :
           (Idle /\ OnlyIncrementA(o)) =>
               Field(heap[o], "a") =
                   Int32(1 + Returned("Call", "FieldsAndMethods", "incrementA", o))

\* An instance that create returned, after two calls of incrementA on it.
C4_Witness ==
    \E o \in held :
        /\ Idle /\ OnlyIncrementA(o)
        /\ Returned("Call", "FieldsAndMethods", "incrementA", o) = 2
        /\ Field(heap[o], "a") = Int32(3)

\* x + y modulo 2^32 as a number from -2^31 to 2^31 - 1, by cases on the
\* signs of x and y.
SumMod(x, y) ==
    IF x >= 0 /\ y >= 0 /\ x > MaxInt32 - y
    THEN (x + MinInt32) + (y + MinInt32)
    ELSE IF x < 0 /\ y < 0 /\ x < MinInt32 - y
    THEN (x - MinInt32) + (y - MinInt32)
    ELSE x + y

\* x - y modulo 2^32, likewise.
DiffMod(x, y) ==
    IF x >= 0 /\ y < 0 /\ x > MaxInt32 + y
    THEN (x + MinInt32) - (y - MinInt32)
    ELSE IF x < 0 /\ y > 0 /\ x < MinInt32 + y
    THEN (x - MinInt32) - (y + MinInt32)
    ELSE x - y

\* 2 * h modulo 2^32.
TwiceMod(h) == SumMod(h, h)

RECURSIVE ProdMod(_, _)
\* x * y modulo 2^32, by doubling: x*y = x*(y % 2) + 2*(x*(y \div 2)).
ProdMod(x, y) ==
    IF y = 0 THEN 0
    ELSE IF y = -1 THEN DiffMod(0, x)
    ELSE SumMod(IF y % 2 = 1 THEN x ELSE 0, TwiceMod(ProdMod(x, y \div 2)))

\* What the method named m of FieldsAndMethods is to return for x and y.
Arithmetic(m, x, y) ==
    IF m = "add" THEN SumMod(x, y)
    ELSE IF m = "sub" THEN DiffMod(x, y)
    ELSE ProdMod(x, y)

\* C5: add, sub and mul return the int32 sum, difference x - y and product
\* of their arguments, reduced modulo 2^32, and no error.
C5_ArithmeticWraps ==
    (result # None /\ result.op.api = "Call"
         /\ result.op.class = "FieldsAndMethods"
         /\ result.op.method \in {"add", "sub", "mul"}) =>
        /\ result.err = ""
        /\ result.v = Int32(Arithmetic(result.op.method, result.op.args[1].v,
                                       result.op.args[2].v))

\* sub at the lower end of the range: -2^31 - 1 wraps to 2^31 - 1.
C5_Witness ==
    /\ result # None /\ result.op.api = "Call" /\ result.op.method = "sub"
    /\ result.op.args = <<Int32(MinInt32), Int32(1)>>
    /\ result.err = ""
    /\ result.v = Int32(MaxInt32)

\* The keys <class>.<method> of the methods of the loaded classes that have
\* a Code attribute whose data is longer than n bytes.
CodeLongerThan(n) ==
    UNION { LET c == ClassOf(heap[o])
            IN  { c.Name \o "." \o c.Methods[i].Name :
                      i \in { j \in 1..Len(c.Methods) :
                                 \E a \in 1..Len(c.Methods[j].Attributes) :
                                     /\ c.Methods[j].Attributes[a].Name = "Code"
                                     /\ Len(c.Methods[j].Attributes[a].Data) > n } }
            : o \in ClassObjects }

\* The key under which the native of the method of an operation is sought.
KeyOf(op) == op.class \o "." \o op.method

\* How often natives have been called under the key key.
NativeCallsOf(key) ==
    LET keys == {k \in DOMAIN nativeCalls : k.key = key}
        RECURSIVE Sum(_)
        Sum(ks) == IF ks = {} THEN 0
                   ELSE LET k == CHOOSE x \in ks : TRUE
                        IN  nativeCalls[k] + Sum(ks \ {k})
    IN  Sum(keys)

\* Method entry, with coded as the keys of the methods that count as having
\* bytecode: a native is called only for a method that is not coded and
\* under a key that is registered; a Call of a coded method of the class
\* Natives returns what its bytecode computes whatever is registered; a Call
\* of a method that is not coded returns what the registered native returns
\* for the arguments of the Call, the native having been called once per
\* such Call with those arguments, and is an error when none is registered.
MethodEntry(coded) ==
    /\ \A k \in DOMAIN nativeCalls : k.key \notin coded /\ k.key \in DOMAIN Native
    /\ (result # None /\ result.op.api = "Call" /\ result.op.class = "Natives") =>
           IF KeyOf(result.op) \in coded
           THEN result.err = "" /\ result.v = Int32(3)
           ELSE IF KeyOf(result.op) \in DOMAIN Native
           THEN /\ result.err = ""
                /\ result.v = NativeResult(Native[KeyOf(result.op)],
                                           result.op.args).v
                /\ NativeCallsOf(KeyOf(result.op)) =
                       Returned("Call", "Natives", result.op.method, 0)
                /\ Count(nativeCalls, [key |-> KeyOf(result.op),
                                       args |-> result.op.args]) =
                       Returned("Call", "Natives", result.op.method, 0)
           ELSE result.err = "method code not found"

\* Call("FieldsAndMethods", "hello"): with Runtime.log registered it returns
\* null and no error, and each such Call has called the native once, with
\* the one argument "Hello world"; with nothing registered it is an error.
HelloCallsLog ==
    (result # None /\ result.op.api = "Call" /\ result.op.method = "hello") =>
        IF "Runtime.log" \in DOMAIN Native
        THEN /\ result.err = "" /\ result.v = Null
             /\ NativeCallsOf("Runtime.log") =
                    Returned("Call", "FieldsAndMethods", "hello", 0)
             /\ Count(nativeCalls, [key |-> "Runtime.log",
                                    args |-> <<String("Hello world")>>]) =
                    Returned("Call", "FieldsAndMethods", "hello", 0)
        ELSE result.err = "method code not found"

\* C6 as the specification states it: a method that has a Code attribute
\* runs its bytecode, otherwise the registered native is called once with
\* the arguments and its result returned, otherwise the call is an error;
\* hello calls Runtime.log once with "Hello world".  (Does not hold: a Code
\* attribute of at most 8 bytes is passed over.)
C6_CodeAttributeFirst == MethodEntry(CodeLongerThan(-1)) /\ HelloCallsLog

\* C6, amended: the bytecode is run when the method has a Code attribute
\* whose data is longer than the 8 bytes of its header; otherwise the
\* registered native is called once with the arguments and its result
\* returned, otherwise the call is an error; hello calls Runtime.log once
\* with "Hello world".
C6_LongCodeFirst == MethodEntry(CodeLongerThan(8)) /\ HelloCallsLog

\* Natives.stub, whose Code attribute is 8 bytes long, called with a native
\* registered for it: the native has run, once, and its 7 is the result.
C6_Witness ==
    /\ result # None /\ result.op.api = "Call" /\ KeyOf(result.op) = "Natives.stub"
    /\ "Natives.stub" \in DOMAIN Native
    /\ "Natives.stub" \notin CodeLongerThan(8)
    /\ "Natives.stub" \in CodeLongerThan(-1)
    /\ result.err = "" /\ result.v = Int32(7)
    /\ nativeCalls = ([key |-> "Natives.stub", args |-> <<>>] :> 1)

\* Whether the descriptor desc gives its method the return type void.
ReturnsVoid(desc) ==
    Len(desc) >= 2 /\ SubSeq(desc, Len(desc) - 1, Len(desc)) = ")V"

\* A method called by an invoke opcode has returned, with no error, to the
\* frame that waits for it.
InvokeReturned ==
    Running /\ Top.kind = "exec" /\ Top.pc = "invoke" /\ ret # None /\ ret.err = ""

\* C7: when a method called by INVOKESTATIC, INVOKEVIRTUAL or INVOKESPECIAL
\* has returned, the next step of the calling frame leaves the returned
\* value on top of its operand stack if the descriptor's return type is not
\* void, and pushes nothing if it is void.  (Does not hold: the result is
\* dropped.)
C7_InvokePushesResult ==
    [][InvokeReturned =>
          LET before == Top.frame.Stack
              after == stack'[Len(stack)].frame.Stack
          IN  /\ Len(stack') = Len(stack)
              /\ IF ReturnsVoid(Top.desc)
                 THEN /\ Len(after) <= Len(before)
                      /\ after = SubSeq(before, 1, Len(after))
                 ELSE /\ after # <<>>
                      /\ after[Len(after)] = ret.v]_vars

\* Calls.callAdd after its invokestatic of add(II)I: the 5 that add returned
\* is not on the operand stack, which is empty when ireturn is to pop it.
C7_ResultDropped ==
    /\ Running /\ hostOp # None /\ hostOp.method = "callAdd"
    /\ Top.kind = "exec" /\ Top.pc = "run"
    /\ HasByte(Top.frame, 0) /\ ByteAt(Top.frame, 0) = 172
    /\ Top.frame.Stack = <<>>

\* The file that the second loop of VM.Class is about to try.
FileTried == Open(Loaded, <<ClassPath[Top.path], Top.name>>)

\* C8: in each directory of the search path, in order, VM.Class passes over
\* a file that does not open or does not parse and goes on to the next
\* directory, returning "class not found" with the registry unchanged after
\* the last; a file that opens and parses is the one that is loaded.  (Does
\* not hold: a file on which Load panics ends the process.)
C8_SearchPath ==
    [][(Running /\ Top.kind = "Class" /\ Top.pc = "path") =>
          IF ~FileTried.open \/ FileTried.ld.panic \/ FileTried.ld.err # ""
          THEN /\ ~crashed'
               /\ Classes' = Classes
               /\ IF Top.path = Len(ClassPath)
                  THEN /\ stack' = Caller
                       /\ ret' = [v |-> Null, err |-> "class not found"]
                  ELSE stack' = WithTop([Top EXCEPT !.path = @ + 1])
          ELSE \/ /\ Len(Classes') = Len(Classes) + 1
                  /\ ClassOf(heap'[Classes'[Len(Classes')]]).Name = Top.name
               \/ /\ Len(stack') = Len(stack) + 1
                  /\ stack'[Len(stack')].kind = "Class"
                  /\ stack'[Len(stack')].name = FileTried.ld.c.Super]_vars

\* Class("Cut"): stale/Cut.class opens and Load panics on it.
C8_CrashOnFile ==
    /\ crashed /\ hostOp # None /\ hostOp.api = "Class" /\ hostOp.class = "Cut"
    /\ Top.kind = "Class" /\ Top.pc = "path"
    /\ FileTried.open /\ FileTried.ld.panic

\* The frame on top is at a runtime fault: an opcode for which exec has no
\* case (0xCA), IDIV with a zero divisor, IADD, ISUB or IMUL with fewer than
\* two operands or with an operand that is no int32, IRETURN with nothing
\* to return.
AtFault ==
    /\ Running /\ Top.kind = "exec" /\ Top.pc = "run" /\ HasByte(Top.frame, 0)
    /\ LET f == Top.frame
           op == ByteAt(f, 0)
       IN  \/ op = 202
           \/ op = 108 /\ Len(f.Stack) >= 2 /\ top(f) = Int32(0)
           \/ /\ op \in {96, 100, 104}
              /\ \/ Len(f.Stack) < 2
                 \/ top(f).k # "int32"
                 \/ under(f).k # "int32"
           \/ op = 172 /\ f.Stack = <<>>

\* C9: a runtime fault ends the running method with an error returned to
\* its caller; it is not passed over and it does not end the process.
\* (Does not hold: 0xCA and IDIV are passed over, the others panic.)
C9_FaultsAreErrors ==
    [][AtFault => /\ ~crashed'
                  /\ stack' = Caller
                  /\ ret' # None
                  /\ ret'.err # ""]_vars

\* Call("Faults", "divzero") has returned a value and no error.
C9_FaultPassedOver ==
    /\ result # None /\ result.op.api = "Call" /\ result.op.class = "Faults"
    /\ result.op.method = "divzero"
    /\ result.err = ""

\* C10: Load returns an error, and does not panic, for a stream that is cut
\* short or holds a constant of an unsupported tag.  (Does not hold: the
\* zero index read after the failure makes Resolve panic.)
C10_LoadReportsError ==
    /\ ~crashed
    /\ (result # None /\ result.op.api = "Load"
            /\ result.op.args[1].r # RuntimeFile) => result.err # ""

\* Load has panicked on Runtime.class with a constant of tag 15.
C10_LoadPanics ==
    /\ crashed /\ hostOp # None /\ hostOp.api = "Load"
    /\ hostOp.args[1].r = BadTagFile(15)

\* The step ends an instruction of the running frame, which goes on to
\* fetch its next opcode: an opcode that calls nothing has run, or the class
\* or the method that a field opcode, an invoke or NEW waited for has
\* returned.
InstructionDone ==
    /\ Running /\ ~crashed' /\ Top.kind = "exec"
    /\ Len(stack') = Len(stack) /\ stack'[Len(stack)].pc = "run"

\* The frame after the step.
FrameAfter == stack'[Len(stack)].frame

\* The opcode of the instruction that ends, and its address: a frame that
\* waits for a class or a method has moved its IP two bytes on already.
DoneOp == IF Top.pc = "run" THEN Opcode ELSE Top.op
DoneAt == IF Top.pc = "run" THEN Frame.IP ELSE Frame.IP - 2

\* The operand length of an opcode in the bytecode format.
OperandLength(op) ==
    CASE op \in {16, 18, 188} \cup 21..25 \cup 54..58 -> 1
      [] op \in {17, 19, 20, 132, 187, 189} \cup 153..166 \cup 178..184 -> 2
      [] OTHER -> 0

\* What the conditional branch op (IFEQ 153 .. IFLE 158 on a and 0,
\* IF_ICMPEQ 159 .. IF_ICMPLE 164 on a and b) tests.
Compare(op, a, b) ==
    CASE op \in {153, 159} -> a = b
      [] op \in {154, 160} -> a # b
      [] op \in {155, 161} -> a < b
      [] op \in {156, 162} -> a >= b
      [] op \in {157, 163} -> a > b
      [] op \in {158, 164} -> a <= b

\* The frame f holds the int operands of the conditional branch op, and the
\* branch is taken.
BranchDecided(f, op) ==
    IF op \in 153..158
    THEN Len(f.Stack) >= 1 /\ top(f).k = "int32"
    ELSE Len(f.Stack) >= 2 /\ top(f).k = "int32" /\ under(f).k = "int32"
BranchTaken(f, op) ==
    IF op \in 153..158
    THEN Compare(op, top(f).v, 0)
    ELSE Compare(op, under(f).v, top(f).v)

\* C11: when an instruction ends that is neither a return nor a control
\* transfer that is taken, the next opcode is fetched at the address of the
\* instruction plus one plus the operand length of its opcode.  (Does not
\* hold: the stores, LDC_W, IINC, the branches, NEWARRAY and ANEWARRAY do
\* not step over their operands.)
C11_NextOpcode ==
    [][(/\ InstructionDone
        /\ DoneOp \in (0..166) \cup (178..184) \cup {187, 188, 189}
        /\ DoneOp \in 153..166 =>
               /\ DoneOp \in 153..164
               /\ BranchDecided(Frame, DoneOp)
               /\ ~BranchTaken(Frame, DoneOp))
          => FrameAfter.IP = DoneAt + 1 + OperandLength(DoneOp)]_vars

\* Ops.istore is about to fetch the operand byte of its ISTORE as an opcode.
C11_OperandFetched ==
    /\ Running /\ hostOp # None /\ hostOp.method = "istore"
    /\ Top.kind = "exec" /\ Top.pc = "run"
    /\ Frame.Code[2] = 54 /\ Frame.IP = 2

\* C12: GOTO, and a conditional branch that is taken, at address p with the
\* signed 16-bit offset d go on at p + d; a conditional branch that is not
\* taken goes on at p + 3.  (Does not hold: GOTO goes on at p + d - 2 with d
\* read unsigned, and the conditional branches do nothing.)
C12_BranchTarget ==
    [][(/\ InstructionDone /\ Top.pc = "run"
        /\ Opcode \in {167} \cup (153..164)
        /\ HasByte(Frame, 2)
        /\ Opcode # 167 => BranchDecided(Frame, Opcode))
          => FrameAfter.IP =
                 IF Opcode = 167 \/ BranchTaken(Frame, Opcode)
                 THEN Frame.IP + SignExtend16(Operand16(Frame))
                 ELSE Frame.IP + 3]_vars

\* Call("Ops", "forward") has returned the 1 that its GOTO is to jump over.
C12_WrongTarget ==
    /\ result # None /\ result.op.class = "Ops" /\ result.op.method = "forward"
    /\ result.err = "" /\ result.v = Int32(1)

\* C13: when the method called by an invoke has returned, the calling frame
\* goes on with the argc arguments, and the receiver of an INVOKEVIRTUAL or
\* INVOKESPECIAL, cut from its operand stack and the slots below them
\* unchanged.  (Does not hold: the receiver stays on the stack.)
C13_InvokePopsArguments ==
    [][InvokeReturned =>
          LET before == Top.frame.Stack
              gone == argc(Top.desc)
                          + (IF Top.op = OpInvokeStatic THEN 0 ELSE 1)
          IN  /\ InstructionDone
              /\ FrameAfter.Stack = SubSeq(before, 1, Len(before) - gone)]_vars

\* FieldsAndMethods.create is at its areturn, after new, dup and the
\* invokespecial of <init>, with both references still on its stack.
C13_ReceiverLeft ==
    /\ Running /\ hostOp # None /\ hostOp.method = "create"
    /\ Len(stack) = 2 /\ Top.kind = "exec" /\ Top.pc = "run"
    /\ HasByte(Frame, 0) /\ Opcode = 176
    /\ Len(Frame.Stack) = 2 /\ top(Frame) = under(Frame)

\* The local slot that the store opcode op of the frame f names: the operand
\* of xSTORE (54..58), and n for xSTORE_n (59..78, four to a type).
StoreSlot(f, op) == IF op \in 54..58 THEN ByteAt(f, 1) ELSE (op - 59) % 4

\* C14: a store opcode, with a value on the stack and its slot among the
\* locals, pops the top of the stack into that slot (which a load of the
\* slot then pushes) and changes no other slot.  (Does not hold: the store
\* opcodes do nothing.)
C14_StorePops ==
    [][(/\ InstructionDone /\ Top.pc = "run"
        /\ Opcode \in 54..78
        /\ Frame.Stack # <<>>
        /\ Opcode \in 54..58 => HasByte(Frame, 1)
        /\ StoreSlot(Frame, Opcode) < Len(Frame.Locals))
          => /\ FrameAfter.Stack = drop(Frame, 1).Stack
             /\ FrameAfter.Locals =
                    [Frame.Locals EXCEPT ![StoreSlot(Frame, Opcode) + 1] =
                                             top(Frame)]]_vars

\* Call("Ops", "istore0"), which stores 5 in slot 0 and returns what it
\* loads from slot 0, has returned null.
C14_StoreLost ==
    /\ result # None /\ result.op.class = "Ops" /\ result.op.method = "istore0"
    /\ result.err = "" /\ result.v = Null

\* The class objects whose <clinit> has returned an error.
FailedClasses == {o \in ClassObjects : clinit[o] = "failed"}

\* C15: when the <clinit> of a class that is being loaded returns an error,
\* the lookup returns that error and the class stays registered with the
\* static fields set so far; from then on the class and its fields stay,
\* and a lookup of its name returns that class object with no error,
\* loading nothing and running no <clinit>.
C15_FailedClinitKept ==
    [][/\ (Running /\ Top.kind = "Class" /\ Top.pc = "clinit" /\ ret # None
              /\ ret.err # "")
          => /\ stack' = Caller
             /\ ret' = [v |-> Null, err |-> ret.err]
             /\ \E i \in 1..Len(Classes) : Classes[i] = Top.classObj
             /\ Classes' = Classes
             /\ heap' = heap
             /\ Top.classObj \in FailedClasses'
       /\ \A o \in FailedClasses :
             /\ o \in FailedClasses'
             /\ \E i \in 1..Len(Classes') : Classes'[i] = o
             /\ DOMAIN heap[o].Fields \subseteq DOMAIN heap'[o].Fields
       /\ \A o \in FailedClasses :
             (Running /\ Top.kind = "Class" /\ Top.pc = "scan"
                 /\ Top.name = NameOf(o))
                => /\ stack' = Caller
                   /\ ret' = [v |-> Ref(o), err |-> ""]
                   /\ Classes' = Classes
                   /\ heap' = heap
                   /\ clinit' = clinit]_vars

\* Class("Half") has returned, with no error, the class object whose
\* <clinit> failed after it had set the static a.
C15_Witness ==
    /\ result # None /\ result.op.api = "Class" /\ result.op.class = "Half"
    /\ result.err = "" /\ result.v.k = "ref"
    /\ result.v.v \in FailedClasses
    /\ heap[result.v.v].Fields = ("a" :> Int32(1))

\* C16: when a class object with a super class is registered, the super
\* class object it holds is the one the registry has for the super name,
\* and the <clinit> of the super class has run to its end.  (Does not hold:
\* a class loaded from inside the <clinit> of its super class is registered,
\* and initialised, before that <clinit> has ended.)
C16_SuperFirst ==
    [][Len(Classes') = Len(Classes) + 1 =>
          LET n == Classes'[Len(Classes')]
              s == heap'[n].SuperInstance
          IN  ClassOf(heap'[n]).Super # ""
                 => /\ Registered(ClassOf(heap'[n]).Super) # 0
                    /\ s = Classes[Registered(ClassOf(heap'[n]).Super)]
                    /\ clinit[s] \in {"none", "done"}]_vars

\* A class object of Derived is registered, and its own <clinit> runs, while
\* the <clinit> of its super class Base is still running.
C16_SuperStillRunning ==
    \E o \in ClassObjects :
        /\ NameOf(o) = "Derived"
        /\ \E i \in 1..Len(Classes) : Classes[i] = o
        /\ clinit[o] = "running"
        /\ heap[o].SuperInstance # 0
        /\ clinit[heap[o].SuperInstance] = "running"

\* max_locals of the Code attribute that callMethod runs for the method m.
MaxLocals(m) ==
    Uint16(SubSeq(m.Attributes[First({i \in 1..Len(m.Attributes) :
                                          /\ m.Attributes[i].Name = "Code"
                                          /\ Len(m.Attributes[i].Data) > 8})].Data,
                  3, 4))

\* The step enters the bytecode of a method called by an invoke opcode of
\* the running frame, or of the <clinit> of the class that VM.Class is
\* registering.
Entered ==
    /\ Running /\ ~crashed' /\ Top.kind \in {"exec", "Class"}
    /\ Len(stack') = Len(stack) + 1
    /\ stack'[Len(stack')].kind = "exec"

\* C17: a frame that waits for a callee is left as it is, locals, IP and
\* operand stack, while the callee runs; the callee starts in a frame of its
\* own with an empty operand stack, IP 0 and max_locals locals, which hold
\* the arguments in their first slots and null in the others.
C17_FramePerCall ==
    [][/\ \A i \in 1..(Len(stack) - 1) :
             (i <= Len(stack') /\ stack[i].kind = "exec")
                => /\ stack'[i].kind = "exec"
                   /\ stack'[i].frame = stack[i].frame
       /\ Entered =>
             LET new == stack'[Len(stack')].frame
                 c == ClassOf(heap'[new.Class])
                 m == IF Top.kind = "exec"
                      THEN c.Methods[MethodIndex(c, Top.name, Top.desc)]
                      ELSE c.Methods[MethodIndex(c, "<clinit>", "()V")]
                 depth == Len(Top.frame.Stack)
                 args == IF Top.kind = "Class" THEN <<>>
                         ELSE IF Top.op = OpInvokeStatic
                         THEN SubSeq(Top.frame.Stack,
                                     depth - argc(Top.desc) + 1, depth)
                         ELSE SubSeq(Top.frame.Stack,
                                     depth - argc(Top.desc), depth)
             IN  /\ Top.kind = "exec" =>
                        /\ stack'[Len(stack)].frame = Top.frame
                        /\ new.Class = ret.v.v
                 /\ Top.kind = "Class" => new.Class = Classes'[Len(Classes')]
                 /\ new.Stack = <<>>
                 /\ new.IP = 0
                 /\ Len(new.Locals) = MaxLocals(m)
                 /\ \A i \in 1..Len(new.Locals) :
                       new.Locals[i] = IF i <= Len(args) THEN args[i]
                                       ELSE Null]_vars

\* FieldsAndMethods.add, invoked by Calls.callAdd, is at its first opcode
\* with 2 and 3 in its locals, while callAdd waits with 2 and 3 on its
\* operand stack, past its invokestatic.
C17_Witness ==
    /\ Running /\ Len(stack) = 3 /\ hostOp # None /\ hostOp.method = "callAdd"
    /\ Top.kind = "exec" /\ Top.pc = "run"
    /\ Frame.IP = 0 /\ Frame.Stack = <<>>
    /\ Frame.Locals = <<Int32(2), Int32(3)>>
    /\ stack[2].kind = "exec" /\ stack[2].pc = "invoke"
    /\ stack[2].frame.Stack = <<Int32(2), Int32(3)>>
    /\ stack[2].frame.IP = 4

\* The literal that a constant opcode or an immediate push of the frame f
\* names.
Literal(f, op) ==
    CASE op = 1 -> Null
      [] op \in 2..8 -> Int32(op - 3)
      [] op \in 9..10 -> Int64(op - 9)
      [] op \in 11..13 -> Float32(op - 11)
      [] op \in 14..15 -> Float64(op - 14)
      [] op = 16 -> Int32(SignExtend8(ByteAt(f, 1)))
      [] op = 17 -> Int32(SignExtend16(Operand16(f)))

\* C18: a constant opcode (ACONST_NULL 1 .. DCONST_1 15), BIPUSH and SIPUSH
\* push the literal they name, the immediate pushes as an int32, and change
\* nothing below it.  (Does not hold: LCONST_0 pushes the int64 5, BIPUSH
\* an int8 and SIPUSH an int16.)
C18_PushesLiteral ==
    [][(InstructionDone /\ Top.pc = "run" /\ Opcode \in 1..17)
          => FrameAfter.Stack = Append(Frame.Stack, Literal(Frame, Opcode))]_vars

\* Ops.bipush has panicked at its IADD, whose operands are the int8 -1 that
\* BIPUSH pushed and the int32 1.
C18_PushRejected ==
    /\ crashed /\ hostOp # None /\ hostOp.method = "bipush"
    /\ Top.kind = "exec" /\ HasByte(Frame, 0) /\ Opcode = 96
    /\ Frame.Stack = <<Int8(-1), Int32(1)>>

RECURSIVE ParametersFrom(_, _)
\* The number of parameter types of the method descriptor desc from its
\* character i on, in the grammar of descriptors: a parameter is any number
\* of '[' and then a primitive type character or L<class>; .
ParametersFrom(desc, i) ==
    IF i > Len(desc) \/ SubSeq(desc, i, i) = ")"
    THEN 0
    ELSE IF SubSeq(desc, i, i) = "["
    THEN ParametersFrom(desc, i + 1)
    ELSE IF SubSeq(desc, i, i) = "L"
    THEN 1 + ParametersFrom(desc,
                 1 + First({j \in i..Len(desc) : SubSeq(desc, j, j) = ";"}))
    ELSE 1 + ParametersFrom(desc, i + 1)

\* C19: argc(desc) is the number of parameters of desc.  (Does not hold:
\* every '[' is counted as one more parameter.)
C19_ArgcCountsParameters ==
    (result # None /\ result.op.api = "argc")
        => result.v.v = ParametersFrom(result.op.desc, 2)

\* argc("([I)V") has returned 2.
C19_ArrayCountedTwice ==
    /\ result # None /\ result.op.api = "argc" /\ result.op.desc = "([I)V"
    /\ result.v.v = 2

\* C20: POP removes the top of the operand stack, DUP pushes a second copy
\* of it and SWAP exchanges the top two values; the slots below, the locals
\* and the fields of every object are unchanged.  (Does not hold: POP does
\* nothing.)
C20_StackOpcodes ==
    [][(/\ InstructionDone /\ Top.pc = "run"
        /\ Opcode \in {87, 89, 95}
        /\ Len(Frame.Stack) >= (IF Opcode = 95 THEN 2 ELSE 1))
          => /\ FrameAfter.Stack =
                    CASE Opcode = 87 -> drop(Frame, 1).Stack
                      [] Opcode = 89 -> Append(Frame.Stack, top(Frame))
                      [] Opcode = 95 ->
                           drop(Frame, 2).Stack \o <<top(Frame), under(Frame)>>
             /\ FrameAfter.Locals = Frame.Locals
             /\ heap' = heap]_vars

\* Call("Ops", "pop"), which pushes 1 and 2, pops and returns the top, has
\* returned 2.
C20_PopKeepsTop ==
    /\ result # None /\ result.op.class = "Ops" /\ result.op.method = "pop"
    /\ result.err = "" /\ result.v = Int32(2)

====
